---- MODULE Spec2Model ----
(***************************************************************************)
(* A model of the dynamic-content formatter                                *)
(* (packages/core/src/diffable_arguments.rs), of the mutation encoder      *)
(* (packages/interpreter/src/bindings.rs), of the memoized value           *)
(* (packages/signals/src/memo.rs) and of the web event handler             *)
(* (packages/web/src/dom.rs).                                              *)
(*                                                                         *)
(* Representation.  TLC's integers are 32 bits wide, the program's go up   *)
(* to 128.  A machine integer of k bytes is therefore the sequence of its  *)
(* k base-256 digits, most significant digit first (positional notation,   *)
(* two's complement for the signed types); the arithmetic the code does on *)
(* it (/ 10, % 10, > 0, checked_abs, MAX / 2 + 1) is done on the digits.   *)
(* Lengths, counts and indices, which stay small, are TLC integers.        *)
(* A string is the sequence of its UTF-8 bytes.                            *)
(***************************************************************************)
EXTENDS Integers, Sequences, FiniteSets, TLC

VARIABLES
    f_op,      \* formatter: the operation last applied ("none" before any)
    f_heap,    \* formatter: the Entry arrays in memory, block -> <<Entry, ...>>
    f_self,    \* formatter: the receiver of the operation
    f_other,   \* formatter: the second argument of eq / the buffer before write
    f_out,     \* formatter: what the operation returned
    msg,       \* Interpreter.msg : Vec<u8>
    id_size,   \* Interpreter.id_size : u8
    last,      \* history: the encoder call last made, the state it met, what it did
    widest,    \* history: the largest significant-byte count of the identifiers
               \* passed to check_id so far
    session,   \* the caller (which arguments it uses) and, when it observes the
               \* session, history: every call made, with what it appended or
               \* handed to the execution engine
    buf,       \* the allocation of Interpreter.msg: its address and its capacity
    PTR,       \* static mut PTR : usize
               \* (no operation's bytes depend on buf or PTR: they are followed
               \* from call to call in an observed session, and elsewhere every
               \* call is taken to find the buffer of a new Vec)
    callback,  \* UpdateInformation.callback : the computation, as a function of
               \* the value of what it reads
    dirty,     \* UpdateInformation.dirty : AtomicBool
    inner,     \* Memo.inner : Signal<T>, the value it holds
    rx,        \* the channel of Memo::new: the number of messages not yet received
    dep,       \* the value of what the computation reads
    dropped,   \* the scope that owns the Memo has been dropped
    m_last,    \* history: the Memo operation last applied, the state it met,
               \* what it did
    changed,   \* history: what the computation reads was written since the
               \* computation last ran
    dom,       \* the event's target and its chain of parent elements, the
               \* target first
    event,     \* the web_sys::Event given to the handler
    pc,        \* where the handler is: "idle", "walk" (in the loop of
               \* walk_event_for_id), "walked" (the walk returned), "done"
    current_target_element,  \* walk_event_for_id's variable
    element,   \* what walk_event_for_id returned
    prevented, \* event.prevent_default() was called
    dispatched \* what runtime.handle_event was called with, if it was

vars == <<f_op, f_heap, f_self, f_other, f_out, msg, id_size, last, widest, session,
          buf, PTR, callback, dirty, inner, rx, dep, dropped, m_last, changed,
          dom, event, pc, current_target_element, element, prevented, dispatched>>

fvars == <<f_op, f_heap, f_self, f_other, f_out>>
evars == <<msg, id_size, last, widest, session, buf, PTR>>
mvars == <<callback, dirty, inner, rx, dep, dropped, m_last, changed>>
wvars == <<dom, event, pc, current_target_element, element, prevented, dispatched>>

None == [some |-> FALSE]
Some(v) == [some |-> TRUE, val |-> v]

Max(a, b) == IF a >= b THEN a ELSE b


(***************************************************************************)
(* Machine integers as digit sequences.                                    *)
(***************************************************************************)

\* The k-byte integer whose value is the (small) natural number n.
RECURSIVE Digits(_, _)
Digits(n, k) == IF k = 0 THEN <<>> ELSE Append(Digits(n \div 256, k - 1), n % 256)

\* n == 0, and its negation n > 0 for an unsigned or non-negative n.
IsZero(d) == \A i \in 1..Len(d) : d[i] = 0

\* Quotient and remainder of (carry * 256^Len(d) + d) by the small divisor m.
RECURSIVE DivRem(_, _, _)
DivRem(d, m, carry) ==
    IF d = <<>> THEN [q |-> <<>>, r |-> carry]
    ELSE LET cur  == carry * 256 + Head(d)
             rest == DivRem(Tail(d), m, cur % m)
         IN  [q |-> <<cur \div m>> \o rest.q, r |-> rest.r]

\* n / m and n % m of the unsigned integer types (m small).
Div(d, m) == DivRem(d, m, 0).q
Rem(d, m) == DivRem(d, m, 0).r

\* n + 1, wrapping.
RECURSIVE Inc(_)
Inc(d) ==
    IF d = <<>> THEN <<>>
    ELSE LET n == Len(d)
         IN  IF d[n] = 255 THEN Append(Inc(SubSeq(d, 1, n - 1)), 0)
             ELSE [d EXCEPT ![n] = @ + 1]

\* -n in two's complement, wrapping.
WrappingNeg(d) == Inc([i \in 1..Len(d) |-> 255 - d[i]])

\* self < 0 for a signed type.
IsNegative(d) == d[1] >= 128

\* <$t>::MIN and <$t>::MAX of the signed type of k bytes, and the unsigned MAX.
MinOf(k) == [i \in 1..k |-> IF i = 1 THEN 128 ELSE 0]
MaxOf(k) == [i \in 1..k |-> IF i = 1 THEN 127 ELSE 255]
UMaxOf(k) == [i \in 1..k |-> 255]

\* i*::checked_abs: None when the absolute value does not fit (self == MIN).
checked_abs(d) ==
    IF ~IsNegative(d) THEN Some(d)
    ELSE IF d = MinOf(Len(d)) THEN None
    ELSE Some(WrappingNeg(d))

(***************************************************************************)
(* The destination buffer.  A BumpVec<u8> is its backing storage `mem`     *)
(* (Len(mem) is the capacity) and its length `len`; storage past `len`     *)
(* that was never written holds -1, which is no byte.                      *)
(***************************************************************************)

\* BumpVec::reserve: room for at least `additional` more bytes.
reserve(to, additional) ==
    IF Len(to.mem) - to.len >= additional THEN to
    ELSE [to EXCEPT !.mem = SubSeq(to.mem, 1, to.len)
                            \o [i \in 1..additional |-> 0 - 1]]

\* String::with_capacity_in(capacity, bump).
with_capacity_in(capacity) == [mem |-> [i \in 1..capacity |-> 0 - 1], len |-> 0]

\* The initialised contents of the buffer.
Contents(to) == SubSeq(to.mem, 1, to.len)

\* String::write_str / Vec::extend_from_slice: append the bytes of s.
write_str(to, s) ==
    LET r == reserve(to, Len(s))
    IN  [mem |-> [i \in 1..Len(r.mem) |->
                    IF i > r.len /\ i <= r.len + Len(s) THEN s[i - r.len] ELSE r.mem[i]],
         len |-> r.len + Len(s)]

\* `while n2 > 0 { n2 /= 10; num_digits += 1; }`
RECURSIVE CountDigits(_)
CountDigits(n2) == IF IsZero(n2) THEN 0 ELSE 1 + CountDigits(Div(n2, 10))

\* The digit loop of write_unsized and write_sized, on st = [mem, i, n]: writes
\* (n % 10) + b'0' at ptr.add(old_len + i), divides n by 10 and stops when
\* n == 0, else i -= 1.  ptr.add(j) is mem[j + 1].
RECURSIVE DigitLoop(_, _)
DigitLoop(old_len, st) ==
    LET next == [mem |-> [st.mem EXCEPT ![old_len + st.i + 1] = Rem(st.n, 10) + 48],
                 i   |-> st.i,
                 n   |-> Div(st.n, 10)]
    IN  IF IsZero(next.n) THEN next
        ELSE DigitLoop(old_len, [next EXCEPT !.i = @ - 1])

\* write_unsized!($t): Writable::write for u8, u16, u32, u64, u128, usize.
write_unsized(self, to) ==
    LET num_digits == CountDigits(self)
        len        == Max(num_digits, 1)
        to1        == reserve(to, len)
        old_len    == to1.len
        w          == DigitLoop(old_len, [mem |-> to1.mem, i |-> len - 1, n |-> self])
    IN  [mem |-> w.mem, len |-> old_len + (len - w.i)]

\* The fallback taken to be <$t>::MAX.
abs_fallback_max(k) == MaxOf(k)

\* `None => <$t>::MAX / 2 + 1`, for the signed type of k bytes.
abs_fallback(k) == Inc(Div(MaxOf(k), 2))

\* `let mut n = if neg { match self.checked_abs() { .. } } else { self }`
SizedMagnitude(self) ==
    IF IsNegative(self)
    THEN (IF checked_abs(self).some THEN checked_abs(self).val
          ELSE abs_fallback(Len(self)))
    ELSE self

\* write_sized!($t): Writable::write for i8, i16, i32, i64, i128, isize.
write_sized(self, to) ==
    LET neg        == IsNegative(self)
        n          == SizedMagnitude(self)
        num_digits == Max(CountDigits(n), 1)
        len        == IF neg THEN num_digits + 1 ELSE num_digits
        to1        == reserve(to, len)
        old_len    == to1.len
        w          == DigitLoop(old_len, [mem |-> to1.mem, i |-> len - 1, n |-> n])
        i          == IF neg THEN w.i - 1 ELSE w.i
        mem2       == IF neg THEN [w.mem EXCEPT ![old_len + i + 1] = 45] ELSE w.mem
    IN  [mem |-> mem2, len |-> old_len + (len - i)]

(***************************************************************************)
(* DiffableArguments and Entry.                                            *)
(*                                                                         *)
(* static_segments is a reference to a 'static array: StaticMem maps each  *)
(* such array (its identity) to its contents.  dynamic_segments is a       *)
(* reference to an array of Entry in memory: f_heap maps each array (its   *)
(* identity) to its contents, and <<b, i>> is the address of its i-th      *)
(* Entry.  An Entry is [kind, val]: val is the integer of a U64, Usize or  *)
(* I64, the IEEE-754 bits of an F64 (as an 8-byte integer), the byte 0 or  *)
(* 1 of a Bool, the scalar value of a Char (as a 4-byte integer), the      *)
(* bytes of a Str.                                                         *)
(***************************************************************************)

\* "hello ", ", ", " welcome" (the arrays of the `displays` test), "", "a".
StaticMem ==
    <<  << <<104, 101, 108, 108, 111, 32>>, <<44, 32>>,
           <<32, 119, 101, 108, 99, 111, 109, 101>> >>,
        << <<>>, <<>> >>,
        << <<>>, <<>> >>,
        << <<97>>, <<>> >>,
        << <<97>> >>,
        << >>  >>

\* const fn min_size: the sum of the segments' lengths.
RECURSIVE min_size(_)
min_size(slice) == IF slice = <<>> THEN 0 ELSE Len(Head(slice)) + min_size(Tail(slice))

\* The f64 values the model uses, as their bits: 1.5, 0.0, -0.0 and a NaN.
F64OneAndHalf == <<63, 248, 0, 0, 0, 0, 0, 0>>
F64Zero       == <<0, 0, 0, 0, 0, 0, 0, 0>>
F64NegZero    == <<128, 0, 0, 0, 0, 0, 0, 0>>
F64NaN        == <<127, 248, 0, 0, 0, 0, 0, 0>>

\* f64::to_string, for those values: "1.5", "0", "-0", "NaN".
f64_to_string(f) ==
    CASE f = F64OneAndHalf -> <<49, 46, 53>>
      [] f = F64Zero       -> <<48>>
      [] f = F64NegZero    -> <<45, 48>>
      [] f = F64NaN        -> <<78, 97, 78>>

\* f64's ==: a NaN equals nothing, 0.0 equals -0.0.
f64_eq(l, r) ==
    /\ l # F64NaN
    /\ r # F64NaN
    /\ (l = r \/ {l, r} = {F64Zero, F64NegZero})

\* The value of a small integer given by its digits.
RECURSIVE ValueOf(_)
ValueOf(d) == IF d = <<>> THEN 0 ELSE ValueOf(SubSeq(d, 1, Len(d) - 1)) * 256 + d[Len(d)]

\* String::write_char: the UTF-8 encoding of the code point c.
encode_utf8(c) ==
    IF c < 128 THEN <<c>>
    ELSE IF c < 2048 THEN <<192 + (c \div 64), 128 + (c % 64)>>
    ELSE IF c < 65536
         THEN <<224 + (c \div 4096), 128 + ((c \div 64) % 64), 128 + (c % 64)>>
    ELSE <<240 + (c \div 262144), 128 + ((c \div 4096) % 64),
           128 + ((c \div 64) % 64), 128 + (c % 64)>>

\* The `match dynamic_seg { .. }` of to_bump_str.
write_entry(bump_str, dynamic_seg) ==
    CASE dynamic_seg.kind = "U64"   -> write_unsized(dynamic_seg.val, bump_str)
      [] dynamic_seg.kind = "Usize" -> write_unsized(dynamic_seg.val, bump_str)
      [] dynamic_seg.kind = "I64"   -> write_sized(dynamic_seg.val, bump_str)
      [] dynamic_seg.kind = "F64"   -> write_str(bump_str, f64_to_string(dynamic_seg.val))
      [] dynamic_seg.kind = "Bool"  ->
            IF dynamic_seg.val = <<1>> THEN write_str(bump_str, <<116, 114, 117, 101>>)
            ELSE write_str(bump_str, <<102, 97, 108, 115, 101>>)
      [] dynamic_seg.kind = "Char"  -> write_str(bump_str, encode_utf8(ValueOf(dynamic_seg.val)))
      [] dynamic_seg.kind = "Str"   -> write_str(bump_str, dynamic_seg.val)

\* The `for (static_seg, dynamic_seg) in static.iter().zip(dynamic.iter())` loop,
\* from its i-th pair on.
RECURSIVE ZipLoop(_, _, _, _)
ZipLoop(static, dynamic, i, bump_str) ==
    IF i > Len(static) \/ i > Len(dynamic) THEN bump_str
    ELSE ZipLoop(static, dynamic, i + 1,
                 write_entry(write_str(bump_str, static[i]), dynamic[i]))

\* DiffableArguments::to_bump_str: [text |-> the string], or [panic |-> TRUE]
\* when last() is None and unwrap() panics.
to_bump_str(heap, self) ==
    LET static   == StaticMem[self.static_segments]
        dynamic  == heap[self.dynamic_segments]
        bump_str == ZipLoop(static, dynamic, 1, with_capacity_in(min_size(static)))
    IN  IF static = <<>> THEN [panic |-> TRUE]
        ELSE [text |-> Contents(write_str(bump_str, static[Len(static)]))]

\* to_str with a pattern that takes any two static segments for ["", ""].
to_str_any_two_segments(heap, self) ==
    LET static  == StaticMem[self.static_segments]
        dynamic == heap[self.dynamic_segments]
    IN  IF /\ Len(static) = 2
           /\ Len(dynamic) = 1
           /\ dynamic[1].kind = "Str"
        THEN Some(dynamic[1].val)
        ELSE None

\* DiffableArguments::to_str.
to_str(heap, self) ==
    LET static  == StaticMem[self.static_segments]
        dynamic == heap[self.dynamic_segments]
    IN  IF /\ static = << <<>>, <<>> >>
           /\ Len(dynamic) = 1
           /\ dynamic[1].kind = "Str"
        THEN Some(dynamic[1].val)
        ELSE None

\* Entry's eq with the Str arm reduced to the identity check.
entry_eq_identity_only(heap, l, r) ==
    LET self  == heap[l[1]][l[2]]
        other == heap[r[1]][r[2]]
    IN  IF self.kind # other.kind THEN FALSE
        ELSE IF self.kind = "F64" THEN f64_eq(self.val, other.val)
        ELSE IF self.kind = "Str" THEN l = r
        ELSE self.val = other.val

\* impl PartialEq for Entry, on the Entry at address l and the Entry at address r.
\* In the Str arm l0 and r0 are references to the two &str fields, so
\* std::ptr::eq(l0, r0) compares the addresses of the fields.
entry_eq(heap, l, r) ==
    LET self  == heap[l[1]][l[2]]
        other == heap[r[1]][r[2]]
    IN  IF self.kind # other.kind THEN FALSE
        ELSE IF self.kind = "F64" THEN f64_eq(self.val, other.val)
        ELSE IF self.kind = "Str" THEN l = r \/ self.val = other.val
        ELSE self.val = other.val

\* The loop of DiffableArguments::eq from index i (0-based) on: the set of
\* results it can give.  get_unchecked(i) past the end of other's array is
\* undefined behaviour: any result.
RECURSIVE EqLoop(_, _, _, _)
EqLoop(heap, self, other, i) ==
    IF i >= Len(heap[self.dynamic_segments]) THEN {TRUE}
    ELSE IF i >= Len(heap[other.dynamic_segments]) THEN {TRUE, FALSE}
    ELSE IF ~entry_eq(heap, <<self.dynamic_segments, i + 1>>,
                            <<other.dynamic_segments, i + 1>>) THEN {FALSE}
    ELSE EqLoop(heap, self, other, i + 1)

\* DiffableArguments's eq comparing the static segments by content.
diffable_eq_by_content(heap, self, other) ==
    IF StaticMem[self.static_segments] # StaticMem[other.static_segments] THEN {FALSE}
    ELSE EqLoop(heap, self, other, 0)

\* impl PartialEq for DiffableArguments: the set of results eq can give.
diffable_eq(heap, self, other) ==
    IF self.static_segments # other.static_segments THEN {FALSE}
    ELSE EqLoop(heap, self, other, 0)

(***************************************************************************)
(* The mutation encoder (Interpreter).                                     *)
(*                                                                         *)
(* A node identifier is a u64: 8 digits, most significant first.  The      *)
(* operations are functions of the encoder s = [msg, id_size], which also  *)
(* carries the history of the call under way: `widest` (see the            *)
(* variable), `upgrades` (the set_byte_size calls: where in msg, and the   *)
(* size), `fields` (the identifier operands written: where in msg, how     *)
(* many bytes, which identifier), `opcode_at` and `size_at_op` (where the  *)
(* call's opcode went, and id_size at that moment), `strs` (the string     *)
(* operands written: where in msg, which string), `handed` (the stream     *)
(* flush gave to the engine), `work` (see Work; `worked` in the history of *)
(* the call tells whether the engine was called) and `ret` (what           *)
(* should_flush returned).                                                 *)
(***************************************************************************)

\* enum Op.
Op ==
    [AppendChildren |-> 0, ReplaceWith |-> 1, InsertAfter |-> 2, InsertBefore |-> 3,
     Remove |-> 4, CreateTextNode |-> 5, CreateElement |-> 6, CreatePlaceholder |-> 7,
     NewEventListener |-> 8, RemoveEventListener |-> 9, SetText |-> 10,
     SetAttribute |-> 11, RemoveAttribute |-> 12, CloneNode |-> 13,
     CloneNodeChildren |-> 14, FirstChild |-> 15, NextSibling |-> 16,
     ParentNode |-> 17, StoreWithId |-> 18, SetLastNode |-> 19, SetIdSize |-> 20,
     Stop |-> 21]

\* .iter().rev()
RECURSIVE Reverse(_)
Reverse(q) == IF q = <<>> THEN <<>> ELSE Append(Reverse(Tail(q)), Head(q))

\* u16/u32/u64::to_le_bytes: the least significant byte first.
to_le_bytes(n) == Reverse(n)

\* .position(|&b| b != 0): the 0-based index of the first non-zero byte, if any.
RECURSIVE position_nonzero(_, _)
position_nonzero(bytes, at) ==
    IF bytes = <<>> THEN None
    ELSE IF Head(bytes) # 0 THEN Some(at)
    ELSE position_nonzero(Tail(bytes), at + 1)

\* `let byte_size = (8 - first_contentful_byte) as u8` of check_id.
byte_size_of(id) ==
    LET found == position_nonzero(Reverse(to_le_bytes(id)), 0)
        first_contentful_byte == IF found.some THEN found.val ELSE 8
    IN  8 - first_contentful_byte

\* The significant-byte count of an identifier: the smallest k such that every
\* byte above the k-th (in little-endian order) is zero.
SigBytes(id) ==
    LET le == [j \in 1..8 |-> id[9 - j]]
        ZeroAbove(k) == \A j \in (k + 1)..8 : le[j] = 0
    IN  CHOOSE k \in 0..8 : ZeroAbove(k) /\ \A m \in 0..(k - 1) : ~ZeroAbove(m)

\* The address of a Vec that has allocated nothing (NonNull::dangling of u8).
Dangling == 1

\* Vec's reserve before an append of `additional` bytes: when the capacity
\* does not suffice it becomes the largest of twice the capacity, the length
\* needed and 8, and the bytes move to a new allocation, whose address is
\* one no allocation of msg had before (the capacities only grow: the
\* allocation of capacity c is taken to live at Dangling + c).
grow(s, additional) ==
    IF s.cap - Len(s.msg) >= additional THEN s
    ELSE LET cap == Max(Max(2 * s.cap, Len(s.msg) + additional), 8)
         IN  [s EXCEPT !.cap = cap, !.ptr = Dangling + cap]

\* extend starting the buffer anew once it holds more than 1024 bytes.
extend_limited(s, bytes) ==
    [grow(s, Len(bytes)) EXCEPT !.msg = IF Len(@) > 1024 THEN bytes ELSE @ \o bytes]

\* self.msg.extend_from_slice(bytes) and self.msg.push(b).
extend(s, bytes) == [grow(s, Len(bytes)) EXCEPT !.msg = @ \o bytes]
push(s, b) == extend(s, <<b>>)

\* The push of the call's own opcode.
push_op(s, opcode) ==
    [push(s, opcode) EXCEPT !.opcode_at = Len(s.msg), !.size_at_op = s.id_size]

\* set_byte_size taking the full width whatever the size asked for.
set_byte_size_full(s, byte_size) ==
    [push(push([s EXCEPT !.id_size = 8], Op.SetIdSize), 8)
        EXCEPT !.upgrades = Append(@, [at |-> Len(s.msg), size |-> 8])]

\* Interpreter::set_byte_size.
set_byte_size(s, byte_size) ==
    [push(push([s EXCEPT !.id_size = byte_size], Op.SetIdSize), byte_size)
        EXCEPT !.upgrades = Append(@, [at |-> Len(s.msg), size |-> byte_size])]

\* check_id with the comparison turned into "differs from".
check_id_resizing(s, id) ==
    LET byte_size == byte_size_of(id)
        s1 == [s EXCEPT !.widest = Max(@, SigBytes(id))]
    IN  IF byte_size # s1.id_size THEN set_byte_size(s1, byte_size) ELSE s1

\* check_id comparing with the width the encoder has between calls.
check_id_at_entry(s, id) ==
    LET byte_size == byte_size_of(id)
        s1 == [s EXCEPT !.widest = Max(@, SigBytes(id))]
    IN  IF byte_size > id_size THEN set_byte_size(s1, byte_size) ELSE s1

\* Interpreter::check_id.
check_id(s, id) ==
    LET byte_size == byte_size_of(id)
        s1 == [s EXCEPT !.widest = Max(@, SigBytes(id))]
    IN  IF byte_size > s1.id_size THEN set_byte_size(s1, byte_size) ELSE s1

\* `if let Some(r) = root { self.check_id(r) }`
check_root(s, root) == IF root.some THEN check_id(s, root.val) ELSE s

\* `for child in &children { self.check_id(*child); }`
RECURSIVE check_ids(_, _)
check_ids(s, ids) == IF ids = <<>> THEN s ELSE check_ids(check_id(s, Head(ids)), Tail(ids))

\* An identifier operand of `bytes` written at the end of msg.
WithField(s, id, bytes) ==
    [extend(s, bytes) EXCEPT !.fields = Append(@, [at |-> Len(s.msg), bytes |-> bytes, id |-> id])]

\* Interpreter::encode_id.
encode_id(s, id) ==
    LET bytes == to_le_bytes(id)
    IN  WithField(s, id, SubSeq(bytes, 1, s.id_size))

\* encode_maybe_id writing no flag before an identifier.
encode_maybe_id_unflagged(s, id) ==
    IF id.some THEN encode_id(s, id.val) ELSE push(s, 0)

\* Interpreter::encode_maybe_id.
encode_maybe_id(s, id) ==
    IF id.some THEN encode_id(push(s, 1), id.val) ELSE push(s, 0)

\* `for child in children { self.encode_id(child); }`
RECURSIVE encode_ids(_, _)
encode_ids(s, ids) == IF ids = <<>> THEN s ELSE encode_ids(encode_id(s, Head(ids)), Tail(ids))

\* `for id in new_ids { self.encode_maybe_id(Some(id)); }`
RECURSIVE encode_some_ids(_, _)
encode_some_ids(s, ids) ==
    IF ids = <<>> THEN s ELSE encode_some_ids(encode_maybe_id(s, Some(Head(ids))), Tail(ids))

\* encode_str closing the string with a zero byte.
encode_str_terminated(s, string) ==
    [extend(extend(extend(s, to_le_bytes(Digits(Len(string), 2))), string), <<0>>)
        EXCEPT !.strs = Append(@, [at |-> Len(s.msg), string |-> string])]

\* Interpreter::encode_str: `string.len() as u16` keeps the low 16 bits.  The
\* history `strs` notes where in msg the operand starts, and the string given.
encode_str(s, string) ==
    [extend(extend(s, to_le_bytes(Digits(Len(string), 2))), string)
        EXCEPT !.strs = Append(@, [at |-> Len(s.msg), string |-> string])]

\* The list operations counting the target among the identifiers.
ListOp_counting_target(s, opcode, root, children) ==
    LET s1 == check_ids(check_root(s, root), children)
        s2 == encode_maybe_id(push_op(s1, opcode), root)
        s3 == extend(s2, to_le_bytes(Digits(Len(children) + (IF root.some THEN 1 ELSE 0), 4)))
    IN  encode_ids(s3, children)

\* AppendChildren, ReplaceWith, InsertAfter and InsertBefore, which differ in
\* the opcode only; `children.len() as u32` keeps the low 32 bits.
ListOp(s, opcode, root, children) ==
    LET s1 == check_ids(check_root(s, root), children)
        s2 == encode_maybe_id(push_op(s1, opcode), root)
        s3 == extend(s2, to_le_bytes(Digits(Len(children), 4)))
    IN  encode_ids(s3, children)

AppendChildren(s, root, children) == ListOp(s, Op.AppendChildren, root, children)
ReplaceWith(s, root, nodes) == ListOp(s, Op.ReplaceWith, root, nodes)
InsertAfter(s, root, nodes) == ListOp(s, Op.InsertAfter, root, nodes)
InsertBefore(s, root, nodes) == ListOp(s, Op.InsertBefore, root, nodes)

\* The start of every operation with an optional target: check it, push the
\* opcode, encode it.
RootOp(s, opcode, root) == encode_maybe_id(push_op(check_root(s, root), opcode), root)

Remove(s, root) == RootOp(s, Op.Remove, root)

CreateTextNode(s, text, root) == encode_str(RootOp(s, Op.CreateTextNode, root), text)

\* children is a u32.
CreateElement(s, tag, root, children) ==
    extend(push(encode_str(RootOp(s, Op.CreateElement, root), tag), 0),
           to_le_bytes(children))

CreateElementNs(s, tag, root, ns, children) ==
    extend(encode_str(push(encode_str(RootOp(s, Op.CreateElement, root), tag), 1), ns),
           to_le_bytes(children))

CreatePlaceholder(s, root) == RootOp(s, Op.CreatePlaceholder, root)

NewEventListener(s, name, root, bubbles) ==
    push(encode_str(RootOp(s, Op.NewEventListener, root), name),
         IF bubbles THEN 1 ELSE 0)

RemoveEventListener(s, root, name, bubbles) ==
    push(encode_str(RootOp(s, Op.RemoveEventListener, root), name),
         IF bubbles THEN 1 ELSE 0)

\* SetText appending nothing while a Remove waits in the buffer.
SetText_unless_removed(s, root, text) ==
    IF \E i \in DOMAIN s.msg : s.msg[i] = Op.Remove THEN s
    ELSE encode_str(RootOp(s, Op.SetText, root), text)

SetText(s, root, text) == encode_str(RootOp(s, Op.SetText, root), text)

\* `if let Some(ns) = ns { push(1); encode_str(ns) } else { push(0) }`
encode_ns(s, ns) == IF ns.some THEN encode_str(push(s, 1), ns.val) ELSE push(s, 0)

SetAttribute(s, root, field, value, ns) ==
    encode_str(encode_ns(encode_str(RootOp(s, Op.SetAttribute, root), field), ns), value)

RemoveAttribute(s, root, field, ns) ==
    encode_ns(encode_str(RootOp(s, Op.RemoveAttribute, root), field), ns)

\* new_id is written whole, `new_id.to_le_bytes()`, and is not checked.
CloneNode(s, root, new_id) ==
    WithField(RootOp(s, Op.CloneNode, root), new_id, to_le_bytes(new_id))

CloneNodeChildren(s, root, new_ids) ==
    LET s1 == check_ids(check_root(s, root), new_ids)
    IN  encode_some_ids(encode_maybe_id(push_op(s1, Op.CloneNodeChildren), root), new_ids)

FirstChild(s) == push_op(s, Op.FirstChild)

\* NextSibling written like the operations that take a target.
NextSibling_with_target(s) == RootOp(s, Op.NextSibling, None)

NextSibling(s) == push_op(s, Op.NextSibling)
ParentNode(s) == push_op(s, Op.ParentNode)

StoreWithId(s, id) == encode_maybe_id(push_op(check_id(s, id), Op.StoreWithId), Some(id))
SetLastNode(s, id) == encode_maybe_id(push_op(check_id(s, id), Op.SetLastNode), Some(id))

\* should_flush true from the threshold on.
should_flush_at_threshold(s) == Len(s.msg) >= 1024

\* Interpreter::should_flush.
should_flush(s) == Len(s.msg) > 1024

\* flush without the Stop opcode.
flush_stream_unterminated(s) == s

\* Interpreter::flush, up to the publication: the Stop opcode is pushed.
flush_stream(s) == push_op(s, Op.Stop)

\* `let ptr = self.msg.as_ptr(); .. *mut_ptr_ptr = ptr as usize;`
publish(s) == [s EXCEPT !.PTR = s.ptr]

\* What memory holds where no buffer lives (any more): no stream.
NoStream == <<0 - 1>>

\* JsInterpreter::Work: the engine reads the stream at the address PTR holds,
\* which is the buffer's contents when msg lives there, and it leaves the
\* encoder and its buffer alone.  The history `work` notes what PTR held, where
\* msg was and how many bytes it had when the engine was called.
Work(s) ==
    [s EXCEPT !.work = [PTR |-> s.PTR, ptr |-> s.ptr, len |-> Len(s.msg)],
              !.handed = IF s.PTR = s.ptr THEN s.msg ELSE NoStream]

\* flush without the clear.
flush_keeping(s) == Work(publish(flush_stream(s)))

\* flush starting the next batch at width 1.
flush_resetting(s) ==
    [Work(publish(flush_stream(s))) EXCEPT !.msg = <<>>, !.id_size = 1]

\* flush taking the buffer's address before it pushes the Stop opcode.
flush_publishing_first(s) ==
    [Work([flush_stream(s) EXCEPT !.PTR = s.ptr]) EXCEPT !.msg = <<>>]

\* Interpreter::flush: after Work returns, `self.msg.clear()`, which keeps
\* the allocation.
flush(s) == [Work(publish(flush_stream(s))) EXCEPT !.msg = <<>>]

(***************************************************************************)
(* The memoized value (Memo<T>).                                           *)
(*                                                                         *)
(* T is a type with PartialEq: the small naturals and one value, NaN,      *)
(* that differs from every value, itself included.  The computation is a   *)
(* function of the value of what it reads.  An operation takes the Memo as *)
(* a record s and gives the record after it: inner, dirty, the computation *)
(* and what it reads, and what the operation did (ran: the computation was *)
(* run; computed: what it gave; wrote: inner was written; ret: the result  *)
(* of try_read).                                                           *)
(***************************************************************************)

\* The largest value of what the computation reads.
MaxDep == 3
\* The largest number of messages waiting in the channel.
MaxPending == 2

NaN == 0 - 1
NoValue == 0 - 2
Deps == 0..MaxDep

\* `new_value != *peak`, for T: PartialEq.
ne(a, b) == a # b \/ a = NaN \/ b = NaN

Ok(v) == [ok |-> TRUE, val |-> v]
Err == [ok |-> FALSE, val |-> NoValue]

\* recompute writing whatever the computation gave.
recompute_always_writing(s) ==
    LET new_value == s.callback[s.dep]
    IN  [s EXCEPT !.ran = TRUE, !.computed = new_value,
                  !.inner = new_value, !.wrote = TRUE, !.dirty = FALSE]

\* Memo::recompute.
recompute(s) ==
    LET peak == s.inner
        new_value == s.callback[s.dep]
    IN  IF ne(new_value, peak)
        THEN [s EXCEPT !.ran = TRUE, !.computed = new_value,
                       !.inner = new_value, !.wrote = TRUE, !.dirty = FALSE]
        ELSE [s EXCEPT !.ran = TRUE, !.computed = new_value]

\* try_read returning what it read first, whatever dirty was.
try_read_first_read(s) ==
    IF s.dropped THEN [s EXCEPT !.ret = Err]
    ELSE [s EXCEPT !.dirty = FALSE, !.ret = Ok(s.inner)]

\* Memo::try_read.  self.inner.try_read() fails when the owner was dropped.
try_read(s) ==
    IF s.dropped THEN [s EXCEPT !.ret = Err]
    ELSE LET needs_update == s.dirty
             swapped == [s EXCEPT !.dirty = FALSE]
         IN  IF needs_update
             THEN LET t == recompute(swapped) IN [t EXCEPT !.ret = Ok(t.inner)]
             ELSE [swapped EXCEPT !.ret = Ok(s.inner)]

\* The computations: the value read, its half, a constant, and one that
\* gives NaN for 0.
Callbacks ==
    { [d \in Deps |-> d],
      [d \in Deps |-> d \div 2],
      [d \in Deps |-> 0],
      [d \in Deps |-> IF d = 0 THEN NaN ELSE d] }

NoOperation(op) ==
    [op |-> op, pre_inner |-> NoValue, pre_dirty |-> FALSE, pre_changed |-> FALSE,
     ran |-> FALSE,
     wrote |-> FALSE, computed |-> NoValue, ret |-> Err]

\* Memo::new(f), f reading d.
MemoNew(f, d) ==
    /\ callback = f
    /\ dirty = TRUE
    /\ inner = f[d]
    /\ rx = 0
    /\ dep = d
    /\ dropped = FALSE
    /\ m_last = NoOperation("new")
    /\ changed = FALSE

MemoIdle == MemoNew([d \in Deps |-> d], 0)

(***************************************************************************)
(* The web event handler (the closure of WebsysDom::new) and               *)
(* walk_event_for_id.                                                      *)
(*                                                                         *)
(* Of the document the handler can reach the event's target and, through   *)
(* parent_element(), the chain of the target's parent elements: a sequence *)
(* of nodes, the target first, every later node an element and the parent  *)
(* of the one before it.  A node is named by its place in the sequence.    *)
(* An attribute is an Option of the bytes of its value.                    *)
(***************************************************************************)

Node(kind, id, prevent) ==
    [kind |-> kind, data_dioxus_id |-> id, dioxus_prevent_default |-> prevent]

\* node.parent_element()
parent_element(path, node) == IF node < Len(path) THEN Some(node + 1) ELSE None

\* target.dyn_ref::<web_sys::Element>()
dyn_ref_element(path, node) == IF path[node].kind = "element" THEN Some(node) ELSE None

IsDigit(b) == b >= 48 /\ b <= 57

\* The value of a string of decimal digits.
RECURSIVE DecimalValue(_)
DecimalValue(s) ==
    IF s = <<>> THEN 0 ELSE 10 * DecimalValue(SubSeq(s, 1, Len(s) - 1)) + (s[Len(s)] - 48)

\* f.parse() to the usize of ElementId: an optional '+', then one digit or
\* more.
parse(f) ==
    LET digits == IF f # <<>> /\ f[1] = 43 THEN Tail(f) ELSE f
    IN  IF digits = <<>> \/ \E i \in DOMAIN digits : ~IsDigit(digits[i]) THEN Err
        ELSE Ok(DecimalValue(digits))

\* One turn of the loop that goes on to the parent of an element whose
\* data-dioxus-id does not parse.
walk_step_past_invalid(path, current) ==
    LET attr == IF current.some THEN path[current.val].data_dioxus_id ELSE None
    IN  IF current.some /\ attr.some /\ parse(attr.val).ok
        THEN [returned |-> TRUE, current |-> current,
              ret |-> Some([id |-> parse(attr.val).val, element |-> current.val])]
        ELSE LET parent == IF current.some THEN parent_element(path, current.val)
                           ELSE parent_element(path, 1)
             IN  IF parent.some
                 THEN [returned |-> FALSE, current |-> parent, ret |-> None]
                 ELSE [returned |-> TRUE, current |-> current, ret |-> None]

\* One turn of the loop of walk_event_for_id, current_target_element being
\* current: whether it returned, what it returned, and current_target_element
\* after it.
walk_step(path, current) ==
    LET attr == IF current.some THEN path[current.val].data_dioxus_id ELSE None
    IN  IF current.some /\ attr.some /\ parse(attr.val).ok
        THEN [returned |-> TRUE, current |-> current,
              ret |-> Some([id |-> parse(attr.val).val, element |-> current.val])]
        ELSE IF ~attr.some
        THEN LET parent == IF current.some THEN parent_element(path, current.val)
                           ELSE parent_element(path, 1)
             IN  IF parent.some
                 THEN [returned |-> FALSE, current |-> parent, ret |-> None]
                 ELSE [returned |-> TRUE, current |-> current, ret |-> None]
        ELSE [returned |-> TRUE, current |-> current, ret |-> None]

\* char::is_whitespace, for the characters used here: space, tab, line feed.
IsWhitespace(b) == b \in {32, 9, 10}

\* f.split_whitespace(), as the sequence of the words.
RECURSIVE split_whitespace(_)
split_whitespace(f) ==
    IF f = <<>> THEN <<>>
    ELSE IF IsWhitespace(f[1]) THEN split_whitespace(Tail(f))
    ELSE LET stops == { i \in DOMAIN f : IsWhitespace(f[i]) }
             end == IF stops = {} THEN Len(f) + 1
                    ELSE CHOOSE i \in stops : \A j \in stops : i <= j
         IN  <<SubSeq(f, 1, end - 1)>> \o split_whitespace(SubSeq(f, end, Len(f)))

\* "on"
On == <<111, 110>>

\* f.strip_prefix("on").unwrap_or(f)
strip_on(f) ==
    IF Len(f) >= 2 /\ SubSeq(f, 1, 2) = On THEN SubSeq(f, 3, Len(f)) ELSE f

\* prevent_event, for the element the walk found.
prevent_event(target, name) ==
    IF target.dioxus_prevent_default.some
    THEN LET prevent_requests == split_whitespace(target.dioxus_prevent_default.val)
         IN  \E i \in DOMAIN prevent_requests : strip_on(prevent_requests[i]) = name
    ELSE FALSE

\* "submit"
Submit == <<115, 117, 98, 109, 105, 116>>

\* The handler after the walk, deciding by the attribute of the event's
\* target.
handler_by_event_target(path, ev, found) ==
    IF ~found.some THEN [prevented |-> FALSE, dispatched |-> None]
    ELSE LET prevent == prevent_event(path[1], ev.name)
         IN  [prevented |-> IF ev.name = Submit THEN ~prevent ELSE prevent,
              dispatched |-> Some([name |-> ev.name, bubbles |-> ev.bubbles,
                                   element |-> found.val.id,
                                   target |-> found.val.element])]

\* The handler after the walk: what it prevents and what it gives to
\* runtime.handle_event.
handler(path, ev, found) ==
    IF ~found.some THEN [prevented |-> FALSE, dispatched |-> None]
    ELSE LET target == path[found.val.element]
             prevent == prevent_event(target, ev.name)
         IN  [prevented |-> IF ev.name = Submit THEN ~prevent ELSE prevent,
              dispatched |-> Some([name |-> ev.name, bubbles |-> ev.bubbles,
                                   element |-> found.val.id,
                                   target |-> found.val.element])]

NoEvent == [name |-> <<>>, bubbles |-> FALSE]

\* No event has been given to the handler.
WebIdle ==
    /\ dom = <<>>
    /\ event = NoEvent
    /\ pc = "idle"
    /\ current_target_element = None
    /\ element = None
    /\ prevented = FALSE
    /\ dispatched = None

(***************************************************************************)
(* The formatter's specification.  Each action applies one operation of    *)
(* the formatter to arguments drawn from the pools below and records the   *)
(* arguments and the result.                                               *)
(***************************************************************************)

\* The largest number of dynamic entries of a to_str / to_bump_str argument.
MaxDyn == 2
\* The largest number of dynamic entries of an eq argument.
MaxEqDyn == 2

Entry(kind, val) == [kind |-> kind, val |-> val]

\* "world".
World == <<119, 111, 114, 108, 100>>

\* The entries of to_str and to_bump_str arguments: 0, 42 and u64::MAX; 7usize;
\* 42, -5, i64::MIN and i64::MAX; 1.5; true and false; 'a' and U+00E9; "" and
\* "world".
FmtPool ==
    { Entry("U64", Digits(0, 8)), Entry("U64", Digits(42, 8)), Entry("U64", UMaxOf(8)),
      Entry("Usize", Digits(7, 8)),
      Entry("I64", Digits(42, 8)), Entry("I64", WrappingNeg(Digits(5, 8))),
      Entry("I64", MinOf(8)), Entry("I64", MaxOf(8)),
      Entry("F64", F64OneAndHalf),
      Entry("Bool", <<1>>), Entry("Bool", <<0>>),
      Entry("Char", Digits(97, 4)), Entry("Char", Digits(233, 4)),
      Entry("Str", <<>>), Entry("Str", World) }

\* The entries of eq arguments: 1u64, 1i64, "a", "b", NaN.
EqPool ==
    { Entry("U64", Digits(1, 8)), Entry("I64", Digits(1, 8)),
      Entry("Str", <<97>>), Entry("Str", <<98>>), Entry("F64", F64NaN) }

\* The arrays of at most n elements of S.
SeqsUpTo(S, n) == UNION { [1..k -> S] : k \in 0..n }

\* The values written by Writable::write, per size in bytes.
IntSizes == {1, 2, 4, 8, 16}
SmallNats == {0, 1, 9, 10, 42, 99, 100, 127, 128, 255}
UnsignedPool(k) == { Digits(n, k) : n \in SmallNats } \cup { UMaxOf(k) }
SignedPool(k) ==
    { Digits(n, k) : n \in SmallNats \ {128, 255} }
    \cup { WrappingNeg(Digits(n, k)) : n \in SmallNats \ {128, 255} }
    \cup { MinOf(k), MaxOf(k) }

\* The buffers written into: empty with no capacity, "ab" with no spare
\* capacity, "ab" with spare capacity.
BufPool ==
    { [mem |-> <<>>, len |-> 0],
      [mem |-> <<97, 98>>, len |-> 2],
      [mem |-> <<97, 98, 0 - 1, 0 - 1, 0 - 1>>, len |-> 2] }

DiffableArguments(static, dynamic) ==
    [static_segments |-> static, dynamic_segments |-> dynamic]

FmtIdle ==
    /\ f_op = "none"
    /\ f_heap = << <<>>, <<>> >>
    /\ f_self = None
    /\ f_other = None
    /\ f_out = None

\* self.to_str()
FmtToStr ==
    /\ f_op = "none"
    /\ \E static \in DOMAIN StaticMem, dynamic \in SeqsUpTo(FmtPool, MaxDyn) :
        /\ f_op' = "to_str"
        /\ f_heap' = <<dynamic, <<>> >>
        /\ f_self' = DiffableArguments(static, 1)
        /\ f_other' = None
        /\ f_out' = to_str(f_heap', f_self')
        /\ UNCHANGED <<evars, mvars, wvars>>

\* self.to_bump_str(bump)
FmtToBumpStr ==
    /\ f_op = "none"
    /\ \E static \in DOMAIN StaticMem, dynamic \in SeqsUpTo(FmtPool, MaxDyn) :
        /\ f_op' = "to_bump_str"
        /\ f_heap' = <<dynamic, <<>> >>
        /\ f_self' = DiffableArguments(static, 1)
        /\ f_other' = None
        /\ f_out' = to_bump_str(f_heap', f_self')
        /\ UNCHANGED <<evars, mvars, wvars>>

\* self == other, for two DiffableArguments over the same array of entries
\* (other_at = 1) or over two arrays (other_at = 2).
FmtEq ==
    /\ f_op = "none"
    /\ \E a \in SeqsUpTo(EqPool, MaxEqDyn), other_at \in {1, 2},
       static \in {1, 2}, other_static \in {1, 2, 3} :
      \E b \in IF other_at = 1 THEN {<<>>} ELSE SeqsUpTo(EqPool, MaxEqDyn) :
        /\ f_op' = "eq"
        /\ f_heap' = <<a, b>>
        /\ f_self' = DiffableArguments(static, 1)
        /\ f_other' = DiffableArguments(other_static, other_at)
        /\ \E r \in diffable_eq(f_heap', f_self', f_other') : f_out' = [eq |-> r]
        /\ UNCHANGED <<evars, mvars, wvars>>

\* *l == *r, for the Entry at address l and the Entry at address r.
FmtEntryEq ==
    /\ f_op = "none"
    /\ \E a \in SeqsUpTo(EqPool, MaxEqDyn) \ {<<>>}, b \in SeqsUpTo(EqPool, 1) \ {<<>>} :
      \E i \in DOMAIN a, at \in {1, 2} :
        \E j \in IF at = 1 THEN DOMAIN a ELSE DOMAIN b :
          /\ f_op' = "entry_eq"
          /\ f_heap' = <<a, b>>
          /\ f_self' = [addr |-> <<1, i>>]
          /\ f_other' = [addr |-> <<at, j>>]
          /\ f_out' = [eq |-> entry_eq(f_heap', <<1, i>>, <<at, j>>)]
          /\ UNCHANGED <<evars, mvars, wvars>>

\* self.write(to), for self of a signed or an unsigned integer type.
FmtWrite ==
    /\ f_op = "none"
    /\ \E signed \in BOOLEAN, k \in IntSizes, to \in BufPool :
      \E self \in IF signed THEN SignedPool(k) ELSE UnsignedPool(k) :
        /\ f_op' = "write"
        /\ f_heap' = << <<>>, <<>> >>
        /\ f_self' = [signed |-> signed, val |-> self]
        /\ f_other' = to
        /\ f_out' = IF signed THEN write_sized(self, to) ELSE write_unsized(self, to)
        /\ UNCHANGED <<evars, mvars, wvars>>

\* The call returns: the formatter is ready for the next one.
FmtReturn ==
    /\ f_op # "none"
    /\ f_op' = "none"
    /\ f_heap' = << <<>>, <<>> >>
    /\ f_self' = None
    /\ f_other' = None
    /\ f_out' = None
    /\ UNCHANGED <<evars, mvars, wvars>>

\* No encoder call made yet.
\* The arguments of a call: the optional target, the identifiers, the strings
\* (in the order of the parameters), the optional namespace, the bubbles flag
\* and the u32 number of children, for the calls that take them.
Args(root, ids, strs, ns, bubbles, children) ==
    [root |-> root, ids |-> ids, strs |-> strs, ns |-> ns, bubbles |-> bubbles,
     children |-> children]
NoArgs == Args(None, <<>>, <<>>, None, FALSE, <<>>)

\* The engine not called.
NoWork == [PTR |-> 0, ptr |-> 0, len |-> 0]

NoCall ==
    [op |-> "new", opcode |-> 0 - 1, args |-> NoArgs, ids |-> <<>>, pre_len |-> 0,
     pre_size |-> 1, opcode_at |-> 0, size_at_op |-> 1, upgrades |-> <<>>,
     fields |-> <<>>, strs |-> <<>>, ret |-> FALSE, worked |-> FALSE]

\* Interpreter::new, for a caller of the given kind.
NewEncoder(mode) ==
    /\ msg = <<>>
    /\ id_size = 1
    /\ last = NoCall
    /\ widest = 0
    /\ session = [mode |-> mode, calls |-> <<>>]
    /\ buf = [ptr |-> Dangling, cap |-> 0]
    /\ PTR = 0

\* Interpreter::new.
EncIdle == NewEncoder("any")

FmtInit == FmtIdle /\ EncIdle /\ MemoIdle /\ WebIdle

FmtNext ==
    \/ FmtToStr
    \/ FmtToBumpStr
    \/ FmtEq
    \/ FmtEntryEq
    \/ FmtWrite
    \/ FmtReturn

SpecFmt == FmtInit /\ [][FmtNext]_vars

(***************************************************************************)
(* The encoder's specification: any sequence of operations and flushes on  *)
(* one Interpreter, an operation being called while at most MaxMsg bytes   *)
(* wait in the buffer.  The caller is of one of four kinds (session.mode), *)
(* which differ in the arguments they draw: "any", "observed" (few         *)
(* arguments, every call kept in session.calls, at most MaxCalls calls),   *)
(* "zero" (observed as well, all nodes being the node 0) and "long" (long  *)
(* strings, the operations on an empty buffer or on one just over 1024     *)
(* bytes).                                                                 *)
(***************************************************************************)

MaxMsg == 2
MaxList == 2
\* The largest number of calls of an observed session.
MaxCalls == 3

\* n bytes "a".
Text(n) == [i \in 1..n |-> 97]

\* The arguments the caller draws from.  Any caller: identifiers of 0, 1, 2, 5
\* and 8 significant bytes (0, 7, 300, 2^32 + 1, 2^63 + 2), lists of 300 and
\* 2^32 + 1, the strings "" and "a", 0 and 258 children.  The caller of an
\* observed session: the identifiers 7 and 300, the string "a".  The caller
\* with long strings: no target; the strings of the three bytes Stop, 0,
\* SetIdSize, and of "a" 1020, 65535 and 65536 times (the first only, once
\* the buffer holds bytes).  The caller of the node 0, whose session is
\* observed too: the identifier 0, lists of no node and of four times the
\* node 0, the string "".
IdPool ==
    CASE session.mode = "any" ->
            { Digits(0, 8), Digits(7, 8), Digits(300, 8),
              <<0, 0, 0, 1, 0, 0, 0, 1>>, <<128, 0, 0, 0, 0, 0, 0, 2>> }
      [] session.mode = "observed" -> { Digits(7, 8), Digits(300, 8) }
      [] session.mode = "long" -> { Digits(7, 8) }
      [] session.mode = "zero" -> { Digits(0, 8) }
RootPool ==
    IF session.mode = "long" THEN {None}
    ELSE {None} \cup { Some(id) : id \in IdPool }
ListPool ==
    CASE session.mode = "any" ->
            SeqsUpTo({ Digits(300, 8), <<0, 0, 0, 1, 0, 0, 0, 1>> }, MaxList)
      [] session.mode = "observed" -> SeqsUpTo({ Digits(300, 8) }, MaxList)
      [] session.mode = "long" -> { <<>> }
      [] session.mode = "zero" -> { <<>>, [i \in 1..4 |-> Digits(0, 8)] }
StrPool ==
    CASE session.mode = "any" -> { <<>>, <<97>> }
      [] session.mode = "observed" -> { <<97>> }
      [] session.mode = "zero" -> { <<>> }
      [] session.mode = "long" ->
            IF msg = <<>> THEN { <<21, 0, 20>>, Text(1020), Text(65535), Text(65536) }
            ELSE { <<21, 0, 20>> }
NsPool ==
    IF session.mode = "long" THEN { Some(<<97>>) }
    ELSE { None, Some(<<97>>) }
CountPool ==
    IF session.mode = "any" THEN { Digits(0, 4), Digits(258, 4) }
    ELSE { Digits(258, 4) }

\* The caller makes an operation while at most MaxMsg bytes wait in the
\* buffer; the caller with long strings, on an empty buffer, and on one that
\* holds at most MaxMsg - 1 bytes more than should_flush lets pass.
Room ==
    IF session.mode = "long"
    THEN msg = <<>> \/ (Len(msg) > 1024 /\ Len(msg) < 1024 + MaxMsg)
    ELSE Len(msg) <= MaxMsg

\* An encoder with the buffer m and the width w, as a call finds it.
Encoder(m, w, seen) ==
    [msg |-> m, id_size |-> w, widest |-> seen, upgrades |-> <<>>,
     fields |-> <<>>, opcode_at |-> 0, size_at_op |-> w, strs |-> <<>>,
     handed |-> <<>>, ret |-> FALSE, ptr |-> Dangling, cap |-> 0, PTR |-> 0,
     work |-> NoWork]

\* The encoder as a call finds it.
Begin ==
    [Encoder(msg, id_size, widest) EXCEPT !.ptr = buf.ptr, !.cap = buf.cap, !.PTR = PTR]

\* The call of the method `op` with the arguments a.
Apply(s, op, a) ==
    CASE op = "AppendChildren" -> AppendChildren(s, a.root, a.ids)
      [] op = "ReplaceWith" -> ReplaceWith(s, a.root, a.ids)
      [] op = "InsertAfter" -> InsertAfter(s, a.root, a.ids)
      [] op = "InsertBefore" -> InsertBefore(s, a.root, a.ids)
      [] op = "Remove" -> Remove(s, a.root)
      [] op = "CreateTextNode" -> CreateTextNode(s, a.strs[1], a.root)
      [] op = "CreateElement" -> CreateElement(s, a.strs[1], a.root, a.children)
      [] op = "CreateElementNs" ->
            CreateElementNs(s, a.strs[1], a.root, a.strs[2], a.children)
      [] op = "CreatePlaceholder" -> CreatePlaceholder(s, a.root)
      [] op = "NewEventListener" -> NewEventListener(s, a.strs[1], a.root, a.bubbles)
      [] op = "RemoveEventListener" ->
            RemoveEventListener(s, a.root, a.strs[1], a.bubbles)
      [] op = "SetText" -> SetText(s, a.root, a.strs[1])
      [] op = "SetAttribute" -> SetAttribute(s, a.root, a.strs[1], a.strs[2], a.ns)
      [] op = "RemoveAttribute" -> RemoveAttribute(s, a.root, a.strs[1], a.ns)
      [] op = "CloneNode" -> CloneNode(s, a.root, a.ids[1])
      [] op = "CloneNodeChildren" -> CloneNodeChildren(s, a.root, a.ids)
      [] op = "FirstChild" -> FirstChild(s)
      [] op = "NextSibling" -> NextSibling(s)
      [] op = "ParentNode" -> ParentNode(s)
      [] op = "StoreWithId" -> StoreWithId(s, a.ids[1])
      [] op = "SetLastNode" -> SetLastNode(s, a.ids[1])
      [] op = "should_flush" -> [s EXCEPT !.ret = should_flush(s)]
      [] op = "flush" -> flush(s)

\* The identifiers a call refers to: its target, if any, then the others.
Referenced(root, ids) == (IF root.some THEN <<root.val>> ELSE <<>>) \o ids

\* What the call `op` leaves in the history of an observed session: what it
\* appended to the buffer or, for a flush, the stream the engine was given;
\* where msg lives after it; its width-change records and identifier operands.
Observed(op, args, s) ==
    [op |-> op, args |-> args, pre_size |-> id_size, size |-> s.id_size,
     bytes |-> IF op = "flush" THEN s.handed
               ELSE SubSeq(s.msg, Len(msg) + 1, Len(s.msg)),
     ptr |-> s.ptr, work |-> s.work, upgrades |-> s.upgrades, fields |-> s.fields]

\* The caller observes the session.
Observing == session.mode \in {"observed", "zero"}

\* The encoder as the call `op` leaves it.
Commit(op, opcode, args, s) ==
    /\ Observing => Len(session.calls) < MaxCalls
    /\ msg' = s.msg
    /\ id_size' = s.id_size
    /\ widest' = s.widest
    /\ last' = [op |-> op, opcode |-> opcode, args |-> args,
                ids |-> Referenced(args.root, args.ids), pre_len |-> Len(msg),
                pre_size |-> id_size, opcode_at |-> s.opcode_at,
                size_at_op |-> s.size_at_op, upgrades |-> s.upgrades,
                fields |-> s.fields, strs |-> s.strs, ret |-> s.ret,
                worked |-> s.work # NoWork]
    /\ buf' = IF Observing THEN [ptr |-> s.ptr, cap |-> s.cap] ELSE buf
    /\ PTR' = IF Observing THEN s.PTR ELSE PTR
    /\ session' = IF Observing
                  THEN [session EXCEPT !.calls = Append(@, Observed(op, args, s))]
                  ELSE session
    /\ UNCHANGED <<fvars, mvars, wvars>>

CallAppendChildren ==
    /\ Room
    /\ \E root \in RootPool, children \in ListPool :
        Commit("AppendChildren", Op.AppendChildren, Args(root, children, <<>>, None, FALSE, <<>>),
               AppendChildren(Begin, root, children))

CallReplaceWith ==
    /\ Room
    /\ \E root \in RootPool, nodes \in ListPool :
        Commit("ReplaceWith", Op.ReplaceWith, Args(root, nodes, <<>>, None, FALSE, <<>>),
               ReplaceWith(Begin, root, nodes))

CallInsertAfter ==
    /\ Room
    /\ \E root \in RootPool, nodes \in ListPool :
        Commit("InsertAfter", Op.InsertAfter, Args(root, nodes, <<>>, None, FALSE, <<>>),
               InsertAfter(Begin, root, nodes))

CallInsertBefore ==
    /\ Room
    /\ \E root \in RootPool, nodes \in ListPool :
        Commit("InsertBefore", Op.InsertBefore, Args(root, nodes, <<>>, None, FALSE, <<>>),
               InsertBefore(Begin, root, nodes))

CallRemove ==
    /\ Room
    /\ \E root \in RootPool :
        Commit("Remove", Op.Remove, Args(root, <<>>, <<>>, None, FALSE, <<>>),
               Remove(Begin, root))

CallCreateTextNode ==
    /\ Room
    /\ \E text \in StrPool, root \in RootPool :
        Commit("CreateTextNode", Op.CreateTextNode, Args(root, <<>>, <<text>>, None, FALSE, <<>>),
               CreateTextNode(Begin, text, root))

CallCreateElement ==
    /\ Room
    /\ \E tag \in StrPool, root \in RootPool, children \in CountPool :
        Commit("CreateElement", Op.CreateElement, Args(root, <<>>, <<tag>>, None, FALSE, children),
               CreateElement(Begin, tag, root, children))

CallCreateElementNs ==
    /\ Room
    /\ \E tag \in StrPool, root \in RootPool, ns \in StrPool, children \in CountPool :
        Commit("CreateElementNs", Op.CreateElement, Args(root, <<>>, <<tag, ns>>, None, FALSE, children),
               CreateElementNs(Begin, tag, root, ns, children))

CallCreatePlaceholder ==
    /\ Room
    /\ \E root \in RootPool :
        Commit("CreatePlaceholder", Op.CreatePlaceholder, Args(root, <<>>, <<>>, None, FALSE, <<>>),
               CreatePlaceholder(Begin, root))

CallNewEventListener ==
    /\ Room
    /\ \E name \in StrPool, root \in RootPool, bubbles \in BOOLEAN :
        Commit("NewEventListener", Op.NewEventListener, Args(root, <<>>, <<name>>, None, bubbles, <<>>),
               NewEventListener(Begin, name, root, bubbles))

CallRemoveEventListener ==
    /\ Room
    /\ \E root \in RootPool, name \in StrPool, bubbles \in BOOLEAN :
        Commit("RemoveEventListener", Op.RemoveEventListener, Args(root, <<>>, <<name>>, None, bubbles, <<>>),
               RemoveEventListener(Begin, root, name, bubbles))

CallSetText ==
    /\ Room
    /\ \E root \in RootPool, text \in StrPool :
        Commit("SetText", Op.SetText, Args(root, <<>>, <<text>>, None, FALSE, <<>>),
               SetText(Begin, root, text))

CallSetAttribute ==
    /\ Room
    /\ \E root \in RootPool, field \in StrPool, value \in StrPool, ns \in NsPool :
        Commit("SetAttribute", Op.SetAttribute, Args(root, <<>>, <<field, value>>, ns, FALSE, <<>>),
               SetAttribute(Begin, root, field, value, ns))

CallRemoveAttribute ==
    /\ Room
    /\ \E root \in RootPool, field \in StrPool, ns \in NsPool :
        Commit("RemoveAttribute", Op.RemoveAttribute, Args(root, <<>>, <<field>>, ns, FALSE, <<>>),
               RemoveAttribute(Begin, root, field, ns))

CallCloneNode ==
    /\ Room
    /\ \E root \in RootPool, new_id \in IdPool :
        Commit("CloneNode", Op.CloneNode, Args(root, <<new_id>>, <<>>, None, FALSE, <<>>),
               CloneNode(Begin, root, new_id))

CallCloneNodeChildren ==
    /\ Room
    /\ \E root \in RootPool, new_ids \in ListPool :
        Commit("CloneNodeChildren", Op.CloneNodeChildren, Args(root, new_ids, <<>>, None, FALSE, <<>>),
               CloneNodeChildren(Begin, root, new_ids))

CallFirstChild ==
    /\ Room
    /\ Commit("FirstChild", Op.FirstChild, NoArgs,
          FirstChild(Begin))

CallNextSibling ==
    /\ Room
    /\ Commit("NextSibling", Op.NextSibling, NoArgs,
          NextSibling(Begin))

CallParentNode ==
    /\ Room
    /\ Commit("ParentNode", Op.ParentNode, NoArgs,
          ParentNode(Begin))

CallStoreWithId ==
    /\ Room
    /\ \E id \in IdPool :
        Commit("StoreWithId", Op.StoreWithId, Args(None, <<id>>, <<>>, None, FALSE, <<>>),
               StoreWithId(Begin, id))

CallSetLastNode ==
    /\ Room
    /\ \E id \in IdPool :
        Commit("SetLastNode", Op.SetLastNode, Args(None, <<id>>, <<>>, None, FALSE, <<>>),
               SetLastNode(Begin, id))

CallShouldFlush ==
    Commit("should_flush", 0 - 1, NoArgs, [Begin EXCEPT !.ret = should_flush(Begin)])

CallFlush == Commit("flush", Op.Stop, NoArgs, flush(Begin))

Init == FmtIdle /\ EncIdle /\ MemoIdle /\ WebIdle

Next ==
    \/ CallAppendChildren
    \/ CallReplaceWith
    \/ CallInsertAfter
    \/ CallInsertBefore
    \/ CallRemove
    \/ CallCreateTextNode
    \/ CallCreateElement
    \/ CallCreateElementNs
    \/ CallCreatePlaceholder
    \/ CallNewEventListener
    \/ CallRemoveEventListener
    \/ CallSetText
    \/ CallSetAttribute
    \/ CallRemoveAttribute
    \/ CallCloneNode
    \/ CallCloneNodeChildren
    \/ CallFirstChild
    \/ CallNextSibling
    \/ CallParentNode
    \/ CallStoreWithId
    \/ CallSetLastNode
    \/ CallShouldFlush
    \/ CallFlush

Spec == Init /\ [][Next]_vars

\* The same Interpreter with every call observed: at most MaxCalls of them.
InitObserved == FmtIdle /\ NewEncoder("observed") /\ MemoIdle /\ WebIdle
SpecObserved == InitObserved /\ [][Next]_vars

\* The same Interpreter with every call observed, all nodes being the node 0.
InitZero == FmtIdle /\ NewEncoder("zero") /\ MemoIdle /\ WebIdle
SpecZero == InitZero /\ [][Next]_vars

\* The same Interpreter given long strings.
InitLong == FmtIdle /\ NewEncoder("long") /\ MemoIdle /\ WebIdle
SpecLong == InitLong /\ [][Next]_vars

(***************************************************************************)
(* The Memo's specification.  A Memo is made over one of the computations  *)
(* below; what the computation reads is written by its owner, which        *)
(* notifies the Memo; the task spawned by Memo::new and the readers of the *)
(* Memo run between the writes.                                            *)
(***************************************************************************)

\* The Memo an operation is applied to.
MemoBegin ==
    [callback |-> callback, dep |-> dep, inner |-> inner, dirty |-> dirty,
     dropped |-> dropped, ran |-> FALSE, wrote |-> FALSE, computed |-> NoValue,
     ret |-> Err]

\* The Memo after an operation, and the record of the operation.
MemoCommit(op, s) ==
    /\ inner' = s.inner
    /\ dirty' = s.dirty
    /\ changed' = IF s.ran THEN FALSE ELSE changed
    /\ m_last' = [op |-> op, pre_inner |-> inner, pre_dirty |-> dirty,
                  pre_changed |-> changed, ran |-> s.ran,
                  wrote |-> s.wrote, computed |-> s.computed, ret |-> s.ret]
    /\ UNCHANGED <<callback, dep, dropped>>

\* What the computation reads is written: the callback given to the
\* ReactiveContext runs.
MemoNotify ==
    /\ ~dropped
    /\ rx < MaxPending
    /\ \E v \in Deps : dep' = v
    /\ dirty' = TRUE
    /\ rx' = rx + 1
    /\ changed' = TRUE
    /\ m_last' = [NoOperation("notify") EXCEPT !.pre_inner = inner, !.pre_dirty = dirty,
                                               !.pre_changed = changed]
    /\ UNCHANGED <<callback, inner, dropped>>
    /\ UNCHANGED <<fvars, evars, wvars>>

\* The spawned task receives a message: memo.recompute().
MemoTask ==
    /\ ~dropped
    /\ rx > 0
    /\ rx' = rx - 1
    /\ MemoCommit("recompute", recompute(MemoBegin))
    /\ UNCHANGED <<fvars, evars, wvars>>

\* memo.try_read()
MemoTryRead ==
    /\ MemoCommit("try_read", try_read(MemoBegin))
    /\ UNCHANGED rx
    /\ UNCHANGED <<fvars, evars, wvars>>

\* The scope that owns the Memo is dropped, its task and its context with it.
MemoDrop ==
    /\ ~dropped
    /\ dropped' = TRUE
    /\ m_last' = [NoOperation("drop") EXCEPT !.pre_inner = inner, !.pre_dirty = dirty,
                                             !.pre_changed = changed]
    /\ UNCHANGED <<callback, dirty, inner, rx, dep, changed>>
    /\ UNCHANGED <<fvars, evars, wvars>>

MemoInit ==
    /\ FmtIdle
    /\ EncIdle
    /\ WebIdle
    /\ \E f \in Callbacks, d \in Deps : MemoNew(f, d)

MemoNext ==
    \/ MemoNotify
    \/ MemoTask
    \/ MemoTryRead
    \/ MemoDrop

SpecMemo == MemoInit /\ [][MemoNext]_vars

(***************************************************************************)
(* The handler's specification.  The browser gives the handler an event    *)
(* whose target lies in a document drawn from the pools below; the handler *)
(* walks, one turn of the loop at a time, and then decides.                *)
(***************************************************************************)

\* The largest number of nodes from the target up to its last parent element.
MaxDepth == 3

\* "click", "online"
Click == <<99, 108, 105, 99, 107>>
Online == <<111, 110, 108, 105, 110, 101>>

EventNames == {Click, Submit, Online}

\* The elements: with no attribute; with id 7 and no request, the request
\* "onclick", the request "online", the request " \tononline\n"; with id
\* +12 and the request "click onsubmit"; with the id "x" and the request
\* "onclick"; with no id and the request "onclick onsubmit".
ElementPool ==
    { Node("element", None, None),
      Node("element", Some(<<55>>), None),
      Node("element", Some(<<55>>), Some(On \o Click)),
      Node("element", Some(<<55>>), Some(Online)),
      Node("element", Some(<<55>>), Some(<<32, 9>> \o On \o Online \o <<10>>)),
      Node("element", Some(<<43, 49, 50>>), Some(Click \o <<32>> \o On \o Submit)),
      Node("element", Some(<<120>>), Some(On \o Click)),
      Node("element", None, Some(On \o Click \o <<32>> \o On \o Submit)) }

\* A node that is not an element.
TextNode == Node("text", None, None)

\* The chains of at most n nodes: an element or a text node, then elements.
Documents(n) ==
    UNION { { <<first>> \o rest : first \in ElementPool \cup {TextNode},
                                 rest \in [1..k -> ElementPool] } : k \in 0..(n - 1) }

\* The browser calls the handler: name = event.type_(), and
\* walk_event_for_id takes the target.
WebEvent ==
    /\ pc = "idle"
    /\ \E path \in Documents(MaxDepth), name \in EventNames, bubbles \in BOOLEAN :
        /\ dom' = path
        /\ event' = [name |-> name, bubbles |-> bubbles]
        /\ current_target_element' = dyn_ref_element(path, 1)
    /\ pc' = "walk"
    /\ element' = None
    /\ prevented' = FALSE
    /\ dispatched' = None
    /\ UNCHANGED <<fvars, evars, mvars>>

\* One turn of the loop of walk_event_for_id.
WalkStep ==
    /\ pc = "walk"
    /\ LET step == walk_step(dom, current_target_element)
       IN  /\ current_target_element' = step.current
           /\ element' = step.ret
           /\ pc' = IF step.returned THEN "walked" ELSE "walk"
    /\ UNCHANGED <<dom, event, prevented, dispatched>>
    /\ UNCHANGED <<fvars, evars, mvars>>

\* The handler from `let Some((element, target)) = element` to its end.
Handle ==
    /\ pc = "walked"
    /\ LET h == handler(dom, event, element)
       IN  /\ prevented' = h.prevented
           /\ dispatched' = h.dispatched
    /\ pc' = "done"
    /\ UNCHANGED <<dom, event, current_target_element, element>>
    /\ UNCHANGED <<fvars, evars, mvars>>

\* The handler has returned.
WebReturn ==
    /\ pc = "done"
    /\ dom' = <<>>
    /\ event' = NoEvent
    /\ pc' = "idle"
    /\ current_target_element' = None
    /\ element' = None
    /\ prevented' = FALSE
    /\ dispatched' = None
    /\ UNCHANGED <<fvars, evars, mvars>>

WebInit == FmtIdle /\ EncIdle /\ MemoIdle /\ WebIdle

WebNext ==
    \/ WebEvent
    \/ WalkStep
    \/ Handle
    \/ WebReturn

\* The handler runs to its end once called.
SpecWeb == WebInit /\ [][WebNext]_vars /\ WF_vars(WalkStep) /\ WF_vars(Handle)

(***************************************************************************)
(* What the formatter's claims compare the results with.                   *)
(***************************************************************************)

\* d * m + carry on the digits of d (m and carry small), wrapping.
RECURSIVE MulAdd(_, _, _)
MulAdd(d, m, carry) ==
    IF d = <<>> THEN <<>>
    ELSE LET n   == Len(d)
             cur == d[n] * m + carry
         IN  Append(MulAdd(SubSeq(d, 1, n - 1), m, cur \div 256), cur % 256)

\* The k-byte integer a string of decimal digits denotes.
RECURSIVE ParseDecimal(_, _)
ParseDecimal(t, k) ==
    IF t = <<>> THEN Digits(0, k)
    ELSE MulAdd(ParseDecimal(SubSeq(t, 1, Len(t) - 1), k), 10, t[Len(t)] - 48)

\* t is the decimal text of the unsigned integer mag: digits only, no leading
\* zero, and it denotes mag (parsed with one byte to spare).
IsDecimalOf(t, mag) ==
    /\ t # <<>>
    /\ \A i \in 1..Len(t) : t[i] \in 48..57
    /\ Len(t) > 1 => t[1] # 48
    /\ ParseDecimal(t, Len(mag) + 1) = <<0>> \o mag

\* The magnitude of the negative k-byte integer v, with one byte to spare.
TrueMagnitude(v) == WrappingNeg(<<255>> \o v)

\* t is the decimal text of the signed integer v.
IsSignedDecimalOf(t, v) ==
    IF IsNegative(v)
    THEN /\ t # <<>>
         /\ t[1] = 45
         /\ Tail(t) # <<>>
         /\ \A i \in 2..Len(t) : t[i] \in 48..57
         /\ Len(t) > 2 => t[2] # 48
         /\ ParseDecimal(Tail(t), Len(v) + 1) = TrueMagnitude(v)
    ELSE IsDecimalOf(t, v)

\* The scalar value a UTF-8 sequence of one to four bytes encodes.
DecodeUtf8(t) ==
    CASE Len(t) = 1 -> t[1]
      [] Len(t) = 2 -> (t[1] - 192) * 64 + (t[2] - 128)
      [] Len(t) = 3 -> (t[1] - 224) * 4096 + (t[2] - 128) * 64 + (t[3] - 128)
      [] Len(t) = 4 -> (t[1] - 240) * 262144 + (t[2] - 128) * 4096
                       + (t[3] - 128) * 64 + (t[4] - 128)
      [] OTHER -> 0 - 1

\* t is how the claim says the entry e is rendered.
Renders(e, t) ==
    CASE e.kind \in {"U64", "Usize"} -> IsDecimalOf(t, e.val)
      [] e.kind = "I64"  -> IsSignedDecimalOf(t, e.val)
      [] e.kind = "Bool" -> t = IF e.val = <<1>> THEN <<116, 114, 117, 101>>
                                ELSE <<102, 97, 108, 115, 101>>
      [] e.kind = "Char" -> DecodeUtf8(t) = ValueOf(e.val)
      [] e.kind = "Str"  -> t = e.val
      [] OTHER -> FALSE

\* segment0, piece0, segment1, piece1, ..., segmentN.
RECURSIVE Interleave(_, _)
Interleave(segments, pieces) ==
    IF pieces = <<>> THEN Head(segments)
    ELSE Head(segments) \o Head(pieces) \o Interleave(Tail(segments), Tail(pieces))

\* The text an entry contributes when it is written on its own.
PieceOf(e) == Contents(write_entry(with_capacity_in(0), e))

\* "hello world, 42 welcome"
HelloWorld42 ==
    <<104, 101, 108, 108, 111, 32, 119, 111, 114, 108, 100, 44, 32, 52, 50,
      32, 119, 101, 108, 99, 111, 109, 101>>

\* The static segments and the dynamic entries of a DiffableArguments.
StaticOf(a) == StaticMem[a.static_segments]
DynamicOf(a) == f_heap[a.dynamic_segments]

(***************************************************************************)
(* C1.  For N+1 static segments and N dynamic entries (none of them an     *)
(* F64), to_bump_str returns segment0, value0, ..., segmentN concatenated  *)
(* in that order, each value rendered as its decimal text (U64, Usize,     *)
(* I64), "true"/"false" (Bool), the character itself (Char) or the string  *)
(* content (Str); ["hello ", ", ", " welcome"] with ["world", 42] gives    *)
(* "hello world, 42 welcome".                                              *)
(***************************************************************************)
C1_Covered ==
    /\ f_op = "to_bump_str"
    /\ Len(StaticOf(f_self)) = Len(DynamicOf(f_self)) + 1
    /\ \A i \in DOMAIN DynamicOf(f_self) : DynamicOf(f_self)[i].kind # "F64"

C1_InterleavedText ==
    C1_Covered =>
        /\ f_out.text = Interleave(StaticOf(f_self),
                              [i \in DOMAIN DynamicOf(f_self) |-> PieceOf(DynamicOf(f_self)[i])])
        /\ \A i \in DOMAIN DynamicOf(f_self) :
              Renders(DynamicOf(f_self)[i], PieceOf(DynamicOf(f_self)[i]))
        /\ (/\ f_self.static_segments = 1
            /\ DynamicOf(f_self) = <<Entry("Str", World), Entry("I64", Digits(42, 8))>>)
           => f_out.text = HelloWorld42

(***************************************************************************)
(* C2.  Writable::write for a signed integer type appends the correct      *)
(* decimal text of every value of the type, the minimum included: '-' and  *)
(* the digits of the true magnitude (i8 -128 is written as "-128").        *)
(***************************************************************************)
C2_SignedDecimalText ==
    (f_op = "write" /\ f_self.signed) =>
        /\ f_out.len >= f_other.len
        /\ SubSeq(f_out.mem, 1, f_other.len) = Contents(f_other)
        /\ IsSignedDecimalOf(SubSeq(f_out.mem, f_other.len + 1, f_out.len), f_self.val)

(***************************************************************************)
(* C3.  to_str returns Some(s) exactly when the static segments are two    *)
(* empty strings and the dynamic entries are exactly one Str(s), and None  *)
(* otherwise; and Some(s) is byte-identical to what to_bump_str returns    *)
(* for the same arguments.                                                 *)
(***************************************************************************)
C3_ToStrFastPath ==
    f_op = "to_str" =>
        /\ f_out.some <=> /\ StaticOf(f_self) = << <<>>, <<>> >>
                          /\ Len(DynamicOf(f_self)) = 1
                          /\ DynamicOf(f_self)[1].kind = "Str"
        /\ f_out.some => /\ f_out.val = DynamicOf(f_self)[1].val
                         /\ to_bump_str(f_heap, f_self) = [text |-> f_out.val]

\* to_str took the fast path on ["", ""] with [Str("world")].
C3_Witness ==
    /\ f_op = "to_str"
    /\ f_out.some
    /\ f_out.val = World

(***************************************************************************)
(* C4.  Two DiffableArguments compare equal if and only if their static    *)
(* segment arrays are the same array by identity and every dynamic entry   *)
(* of one equals the corresponding dynamic entry of the other; same text   *)
(* under a different identity compares unequal.  Stated for the pairs in   *)
(* which two sets over the same static array have the same number of       *)
(* dynamic entries, so that every entry has a corresponding one.           *)
(***************************************************************************)
C4_Covered ==
    /\ f_op = "eq"
    /\ f_self.static_segments = f_other.static_segments
          => Len(DynamicOf(f_self)) = Len(DynamicOf(f_other))

C5_BothStr ==
    /\ f_op = "entry_eq"
    /\ f_heap[f_self.addr[1]][f_self.addr[2]].kind = "Str"
    /\ f_heap[f_other.addr[1]][f_other.addr[2]].kind = "Str"

C5_StrEqIsContentEq ==
    C5_BothStr =>
        (f_out.eq <=> f_heap[f_self.addr[1]][f_self.addr[2]].val
                        = f_heap[f_other.addr[1]][f_other.addr[2]].val)

\* Two Str entries at different addresses with the same content compared equal.
C5_Witness ==
    /\ C5_BothStr
    /\ f_self.addr # f_other.addr
    /\ f_heap[f_self.addr[1]][f_self.addr[2]].val
         = f_heap[f_other.addr[1]][f_other.addr[2]].val
    /\ f_out.eq

(***************************************************************************)
(* What the encoder's claims speak of.                                     *)
(***************************************************************************)

\* The last call was an operation (not the construction, a flush or a query).
IsOperation == last.op \notin {"new", "flush", "should_flush"}

\* The identifiers the last call referred to that need more bytes than the
\* width the call found.
Exceeding ==
    { id \in { last.ids[i] : i \in DOMAIN last.ids } : SigBytes(id) > last.pre_size }

\* The u64 that little-endian bytes denote once zero-extended.
ZeroExtended(bytes) ==
    Reverse(bytes \o [i \in 1..(8 - Len(bytes)) |-> 0])

(***************************************************************************)
(* C6.  id_size is 1 on a new encoder, stays within 1..8, and no call      *)
(* ever makes it smaller.                                                  *)
(***************************************************************************)
C6_WidthNeverDecreases ==
    /\ id_size = 1
    /\ [](id_size \in 1..8)
    /\ [][id_size' >= id_size]_vars

\* At width 5, an operation on identifier 300 (2 bytes) left the width at 5.
C6_Witness ==
    /\ last.op = "StoreWithId"
    /\ last.ids = <<Digits(300, 8)>>
    /\ last.pre_size = 5
    /\ id_size = 5

(***************************************************************************)
(* C7.  id_size is always the larger of 1 and the largest significant-byte *)
(* count among the identifiers passed to check_id so far.                  *)
(***************************************************************************)
C7_WidthIsLargestChecked == id_size = Max(1, widest)

\* One call checked 300 and then 2^32 + 1 on a new encoder: the width is 5.
C7_Witness ==
    /\ last.op = "AppendChildren"
    /\ last.pre_size = 1
    /\ last.ids = <<Digits(300, 8), <<0, 0, 0, 1, 0, 0, 0, 1>> >>
    /\ widest = 5
    /\ id_size = 5

(***************************************************************************)
(* C8.  When the last operation referred to one identifier needing more    *)
(* bytes (b) than the width it found, it appended exactly one record       *)
(* SetIdSize, b, and its own opcode right after it; when it referred to no *)
(* such identifier it appended no record, its opcode coming first.         *)
(***************************************************************************)
C8_OneRecordBeforeOpcode ==
    IsOperation =>
        /\ Cardinality(Exceeding) = 1 =>
              LET b == SigBytes(CHOOSE id \in Exceeding : TRUE)
              IN  /\ last.upgrades = <<[at |-> last.pre_len, size |-> b]>>
                  /\ last.opcode_at = last.pre_len + 2
                  /\ Len(msg) >= last.pre_len + 3
                  /\ SubSeq(msg, last.pre_len + 1, last.pre_len + 3)
                        = <<Op.SetIdSize, b, last.opcode>>
                  /\ id_size = b
        /\ Exceeding = {} =>
              /\ last.upgrades = <<>>
              /\ last.opcode_at = last.pre_len
              /\ msg[last.pre_len + 1] = last.opcode
              /\ id_size = last.pre_size

(***************************************************************************)
(* C9.  The last operation checked every identifier it referred to before  *)
(* it appended its opcode: the width at its opcode covers each of them,    *)
(* its width-change records all precede its opcode, and the width does not *)
(* change between its opcode and the end of its operands.                  *)
(***************************************************************************)
C9_CheckedBeforeOpcode ==
    IsOperation =>
        /\ \A i \in DOMAIN last.ids : SigBytes(last.ids[i]) <= last.size_at_op
        /\ \A i \in DOMAIN last.upgrades : last.upgrades[i].at < last.opcode_at
        /\ id_size = last.size_at_op

(***************************************************************************)
(* C10.  Every identifier operand the last operation wrote occupies        *)
(* exactly as many bytes as the width in force at its opcode, holds the    *)
(* identifier's low bytes in little-endian order, and reads back,          *)
(* zero-extended, as the identifier.                                       *)
(***************************************************************************)
C10_OperandIsWidthBytes ==
    IsOperation =>
        \A i \in DOMAIN last.fields :
            LET f == last.fields[i]
            IN  /\ Len(f.bytes) = last.size_at_op
                /\ SubSeq(msg, f.at + 1, f.at + Len(f.bytes)) = f.bytes
                /\ ZeroExtended(f.bytes) = f.id

(***************************************************************************)
(* What the claims on an observed session speak of.                        *)
(***************************************************************************)

\* The calls of the session so far, in call order.
Calls == session.calls

\* The bytes the operations among `calls` appended, in call order.
RECURSIVE AppendedBy(_)
AppendedBy(calls) ==
    IF calls = <<>> THEN <<>>
    ELSE LET c == calls[Len(calls)]
         IN  AppendedBy(SubSeq(calls, 1, Len(calls) - 1))
                \o (IF c.op = "flush" THEN <<>> ELSE c.bytes)

\* The streams the flushes among `calls` handed over, each without its last
\* byte, in flush order.
RECURSIVE HandedOverBy(_)
HandedOverBy(calls) ==
    IF calls = <<>> THEN <<>>
    ELSE LET c == calls[Len(calls)]
         IN  HandedOverBy(SubSeq(calls, 1, Len(calls) - 1))
                \o (IF c.op = "flush" THEN SubSeq(c.bytes, 1, Len(c.bytes) - 1) ELSE <<>>)

\* The bytes the operations appended between the flush before call k and call k.
RECURSIVE SinceFlush(_, _)
SinceFlush(calls, k) ==
    IF k = 1 \/ calls[k - 1].op = "flush" THEN <<>>
    ELSE SinceFlush(calls, k - 1) \o calls[k - 1].bytes

(***************************************************************************)
(* C11.  In an observed session, the streams handed to the engine, in      *)
(* flush order and without their Stop codes, are at every moment the       *)
(* beginning of the bytes the operations appended, in call order, and at   *)
(* every flush all of them: what an operation appended is handed over by   *)
(* the first flush after it, once.                                         *)
(***************************************************************************)
C11_HandedOnceInOrder ==
    session.mode = "observed" =>
        /\ LET H == HandedOverBy(Calls)
               A == AppendedBy(Calls)
           IN  /\ Len(H) <= Len(A)
               /\ SubSeq(A, 1, Len(H)) = H
               /\ SubSeq(A, Len(H) + 1, Len(A)) = msg
        /\ \A k \in DOMAIN Calls :
              Calls[k].op = "flush" =>
                  HandedOverBy(SubSeq(Calls, 1, k)) = AppendedBy(SubSeq(Calls, 1, k))

\* An operation, then two flushes: the second hands over the Stop code alone.
C11_Witness ==
    /\ Len(Calls) = 3
    /\ Calls[1].op = "StoreWithId"
    /\ Calls[2].op = "flush"
    /\ Calls[2].bytes = <<20, 2, 18, 1, 44, 1, 21>>
    /\ Calls[3].op = "flush"
    /\ Calls[3].bytes = <<21>>

(***************************************************************************)
(* C12.  When flush has returned, the buffer is empty and id_size is what  *)
(* it was before the flush.                                                *)
(***************************************************************************)
C12_FlushKeepsWidth ==
    last.op = "flush" => msg = <<>> /\ id_size = last.pre_size

\* A flush of a buffer that was not empty, at width 5.
C12_Witness ==
    /\ last.op = "flush"
    /\ last.pre_len > 0
    /\ last.pre_size = 5
    /\ id_size = 5
    /\ msg = <<>>

(***************************************************************************)
(* C13.  In an observed session, the stream the engine is given at a flush *)
(* is the bytes the operations appended since the flush before, then one   *)
(* Stop opcode (the Stop opcode alone when nothing was appended); and the  *)
(* opcode an operation pushes is never Stop.                               *)
(***************************************************************************)
C13_StreamEndsWithStop ==
    session.mode = "observed" =>
        /\ \A k \in DOMAIN Calls :
              Calls[k].op = "flush" =>
                  Calls[k].bytes = SinceFlush(Calls, k) \o <<Op.Stop>>
        /\ IsOperation => msg[last.opcode_at + 1] # Op.Stop

\* A flush of the empty buffer, an operation, a flush.
C13_Witness ==
    /\ Len(Calls) = 3
    /\ Calls[1].op = "flush"
    /\ Calls[1].bytes = <<21>>
    /\ Calls[2].op = "NextSibling"
    /\ Calls[3].op = "flush"
    /\ Calls[3].bytes = <<16, 21>>

(***************************************************************************)
(* C14.  should_flush returns true exactly when more than 1024 bytes wait  *)
(* in the buffer; so it returns false on an empty buffer, which is what a  *)
(* new encoder and a flush leave.                                          *)
(***************************************************************************)
C14_ShouldFlushOver1024 ==
    last.op = "should_flush" =>
        /\ last.ret <=> Len(msg) >= 1025
        /\ msg = <<>> => ~last.ret

\* should_flush on a buffer of 1024 bytes returned false.
C14_Witness ==
    /\ last.op = "should_flush"
    /\ Len(msg) = 1024
    /\ ~last.ret

(***************************************************************************)
(* C15.  In what the last operation appended, the 16-bit length prefix of  *)
(* every string operand is the number of string bytes that follow it,      *)
(* strings of more than 65535 bytes included.                              *)
(***************************************************************************)
C15_PrefixCountsStringBytes ==
    IsOperation =>
        \A i \in DOMAIN last.strs :
            LET f == last.strs[i]
            IN  msg[f.at + 1] + 256 * msg[f.at + 2] = Len(f.string)

(***************************************************************************)
(* C16.  A string operand of at most 65535 bytes is appended as its length *)
(* in 16 bits, little-endian, then its bytes as they are; nothing closes   *)
(* it: SetText and CreateTextNode without a target append their opcode,    *)
(* the flag 0, the length and the bytes, and nothing else.                 *)
(***************************************************************************)
C16_StringVerbatim ==
    IsOperation =>
        /\ \A i \in DOMAIN last.strs :
              LET f == last.strs[i]
                  n == Len(f.string)
              IN  n <= 65535 =>
                    /\ msg[f.at + 1] = n % 256
                    /\ msg[f.at + 2] = n \div 256
                    /\ SubSeq(msg, f.at + 3, f.at + 2 + n) = f.string
        /\ (/\ last.op \in {"SetText", "CreateTextNode"}
            /\ ~last.args.root.some
            /\ Len(last.args.strs[1]) <= 65535)
           => LET text == last.args.strs[1]
              IN  SubSeq(msg, last.pre_len + 1, Len(msg))
                    = <<last.opcode, 0, Len(text) % 256, Len(text) \div 256>> \o text

\* SetText with the text of the bytes Stop, 0, SetIdSize.
C16_Witness ==
    /\ last.op = "SetText"
    /\ last.args.strs = << <<21, 0, 20>> >>
    /\ msg = <<10, 0, 3, 0, 21, 0, 20>>

(***************************************************************************)
(* C17.  In an observed session, what an operation appended is what the    *)
(* same call appends on an encoder of the same width that has seen no      *)
(* identifier and holds no byte: it depends on the arguments and on        *)
(* id_size, not on the identifiers created, stored or removed before.      *)
(***************************************************************************)
C17_BytesFromArgsAndWidth ==
    session.mode = "observed" =>
        \A k \in DOMAIN Calls :
            Calls[k].op \notin {"flush", "should_flush"} =>
                Calls[k].bytes
                    = Apply(Encoder(<<>>, Calls[k].pre_size, 0), Calls[k].op, Calls[k].args).msg

\* Remove of identifier 7, a flush, then SetText on identifier 7.
C17_Witness ==
    /\ Len(Calls) = 3
    /\ Calls[1].op = "Remove"
    /\ Calls[1].args.root = Some(Digits(7, 8))
    /\ Calls[2].op = "flush"
    /\ Calls[3].op = "SetText"
    /\ Calls[3].args.root = Some(Digits(7, 8))
    /\ Calls[3].bytes = <<10, 1, 7, 1, 0, 97>>

\* The encoder that the calls leave when made on a new encoder.
RECURSIVE Rerun(_)
Rerun(calls) ==
    IF calls = <<>> THEN Encoder(<<>>, 1, 0)
    ELSE LET c == calls[Len(calls)]
             s == Rerun(SubSeq(calls, 1, Len(calls) - 1))
         IN  Apply(Encoder(s.msg, s.id_size, s.widest), c.op, c.args)

HalfMaxPlusOne(k) == [i \in 1..k |-> IF i = 1 THEN 64 ELSE 0]

\* The number of characters of the decimal text of the unsigned integer mag.
RECURSIVE NumChars(_)
NumChars(mag) == IF IsZero(Div(mag, 10)) THEN 1 ELSE 1 + NumChars(Div(mag, 10))

\* The number of characters of the decimal text of the value last written.
TextLength ==
    IF f_self.signed /\ IsNegative(f_self.val)
    THEN 1 + NumChars(TrueMagnitude(f_self.val))
    ELSE NumChars(f_self.val)

(***************************************************************************)
(* C19.  For a negative signed integer, write appends a minus sign and     *)
(* then the digits of its magnitude, the magnitude of the type's minimum   *)
(* being taken to be the type's maximum divided by 2, plus 1.              *)
(***************************************************************************)
C19_FallbackMagnitude ==
    (f_op = "write" /\ f_self.signed /\ IsNegative(f_self.val)) =>
        LET t == SubSeq(f_out.mem, f_other.len + 1, f_out.len)
            k == Len(f_self.val)
        IN  /\ Len(t) >= 2
            /\ t[1] = 45
            /\ IsDecimalOf(Tail(t),
                           IF f_self.val = MinOf(k) THEN HalfMaxPlusOne(k)
                           ELSE WrappingNeg(f_self.val))

\* i8::MIN written into an empty buffer: "-64".
C19_Witness ==
    /\ f_op = "write"
    /\ f_self.signed
    /\ f_self.val = MinOf(1)
    /\ f_other.len = 0
    /\ Contents(f_out) = <<45, 54, 52>>

(***************************************************************************)
(* C20.  write appends as many bytes as the decimal text of the value has  *)
(* characters (the minus sign of a negative value counted): the length     *)
(* becomes the old length plus that number, the bytes already in the       *)
(* buffer are unchanged, and nothing is written past the new length.       *)
(***************************************************************************)
C20_AppendsTextLength ==
    f_op = "write" =>
        /\ f_out.len = f_other.len + TextLength
        /\ Len(f_out.mem) >= f_out.len
        /\ SubSeq(f_out.mem, 1, f_other.len) = Contents(f_other)
        /\ \A i \in (f_out.len + 1)..Len(f_out.mem) :
              f_out.mem[i] = IF i <= Len(f_other.mem) THEN f_other.mem[i] ELSE 0 - 1

(***************************************************************************)
(* What the claims on the layout of an operation speak of.                 *)
(***************************************************************************)

\* The operations that take an optional target.
TargetOps ==
    {"AppendChildren", "ReplaceWith", "InsertAfter", "InsertBefore", "Remove",
     "CreateTextNode", "CreateElement", "CreateElementNs", "CreatePlaceholder",
     "NewEventListener", "RemoveEventListener", "SetText", "SetAttribute",
     "RemoveAttribute", "CloneNode", "CloneNodeChildren"}

\* The w low bytes of an identifier, the least significant first.
LowBytes(id, w) == [j \in 1..w |-> id[9 - j]]

\* The w low bytes of each identifier of a list, one identifier after the other.
RECURSIVE IdBytes(_, _)
IdBytes(ids, w) ==
    IF ids = <<>> THEN <<>> ELSE LowBytes(Head(ids), w) \o IdBytes(Tail(ids), w)

\* The four bytes of a 32-bit count, the least significant first.
Count32(n) ==
    <<n % 256, (n \div 256) % 256, (n \div 65536) % 256, (n \div 16777216) % 256>>

(***************************************************************************)
(* C21.  The byte after the opcode of an operation that takes an optional  *)
(* target is the flag 0 when the target is absent, and no identifier is    *)
(* written for it; it is the flag 1 when the target is present, followed   *)
(* by the target's id_size low bytes, little-endian.  StoreWithId and      *)
(* SetLastNode append their opcode, the flag 1 and the identifier in       *)
(* id_size bytes, and nothing else.                                        *)
(***************************************************************************)
C21_TargetFlag ==
    IsOperation =>
        LET flag_at == last.opcode_at + 1
            root    == last.args.root
        IN  /\ (last.op \in TargetOps /\ ~root.some) =>
                  /\ msg[flag_at + 1] = 0
                  /\ Len(last.fields) = Len(last.args.ids)
                  /\ \A i \in DOMAIN last.fields : last.fields[i].at >= flag_at + 1
            /\ (last.op \in TargetOps /\ root.some) =>
                  /\ msg[flag_at + 1] = 1
                  /\ Len(last.fields) = Len(last.args.ids) + 1
                  /\ last.fields[1] = [at |-> flag_at + 1, id |-> root.val,
                                       bytes |-> LowBytes(root.val, id_size)]
                  /\ SubSeq(msg, flag_at + 2, flag_at + 1 + id_size)
                        = LowBytes(root.val, id_size)
            /\ last.op \in {"StoreWithId", "SetLastNode"} =>
                  /\ last.fields = <<[at |-> flag_at + 1, id |-> last.args.ids[1],
                                      bytes |-> LowBytes(last.args.ids[1], id_size)]>>
                  /\ SubSeq(msg, last.opcode_at + 1, Len(msg))
                        = <<last.opcode, 1>> \o LowBytes(last.args.ids[1], id_size)

\* At width 2, Remove of the node 7 appended its opcode, the flag 1, and 7, 0.
C21_Witness ==
    /\ last.op = "Remove"
    /\ last.args.root = Some(Digits(7, 8))
    /\ last.pre_size = 2
    /\ SubSeq(msg, last.pre_len + 1, Len(msg)) = <<4, 1, 7, 0>>

(***************************************************************************)
(* C22.  AppendChildren, ReplaceWith, InsertAfter and InsertBefore append  *)
(* their width-change records, two bytes each, and then: their opcode, the *)
(* optional target, the number of identifiers in 32 bits, little-endian,   *)
(* and each identifier in id_size bytes, in the order given -- as many     *)
(* identifiers as the count says, and nothing after them.                  *)
(***************************************************************************)
C22_ListLayout ==
    last.op \in {"AppendChildren", "ReplaceWith", "InsertAfter", "InsertBefore"} =>
        LET root   == last.args.root
            ids    == last.args.ids
            target == IF root.some THEN <<1>> \o LowBytes(root.val, id_size) ELSE <<0>>
        IN  /\ last.opcode = Op[last.op]
            /\ last.opcode_at = last.pre_len + 2 * Len(last.upgrades)
            /\ \A i \in DOMAIN last.upgrades :
                  /\ last.upgrades[i].at = last.pre_len + 2 * (i - 1)
                  /\ msg[last.upgrades[i].at + 1] = Op.SetIdSize
                  /\ msg[last.upgrades[i].at + 2] = last.upgrades[i].size
            /\ SubSeq(msg, last.opcode_at + 1, Len(msg))
                  = <<last.opcode>> \o target \o Count32(Len(ids)) \o IdBytes(ids, id_size)

\* InsertAfter the node 7 of the nodes 300 and 2^32 + 1, on a new encoder.
C22_Witness ==
    /\ last.op = "InsertAfter"
    /\ last.args.root = Some(Digits(7, 8))
    /\ last.args.ids = <<Digits(300, 8), <<0, 0, 0, 1, 0, 0, 0, 1>> >>
    /\ msg = <<20, 2, 20, 5, 2, 1, 7, 0, 0, 0, 0, 2, 0, 0, 0,
               44, 1, 0, 0, 0, 1, 0, 0, 0, 1>>

(***************************************************************************)
(* C23.  A call of FirstChild, NextSibling or ParentNode appends its       *)
(* opcode, one byte, to the buffer as it was, and leaves id_size alone: it *)
(* writes no width-change record.                                          *)
(***************************************************************************)
C23_NavigationOneByte ==
    [][last'.op \in {"FirstChild", "NextSibling", "ParentNode"} =>
          /\ msg' = Append(msg, Op[last'.op])
          /\ id_size' = id_size
          /\ last'.upgrades = <<>>]_vars

\* NextSibling at width 2, after two bytes already in the buffer.
C23_Witness ==
    /\ last.op = "NextSibling"
    /\ last.pre_len = 2
    /\ id_size = 2
    /\ Len(msg) = 3
    /\ msg[3] = Op.NextSibling

(***************************************************************************)
(* C24.  In an observed session, at every flush: when the engine is        *)
(* called, PTR holds the address at which msg then lives (also when msg    *)
(* has moved since the flush before, or moves as the Stop opcode is        *)
(* pushed); what the engine reads there is the operations' bytes since the *)
(* flush before and the Stop opcode, to the last byte; and msg lives at    *)
(* that address still when the call returns.                               *)
(***************************************************************************)
C24_PublishedWhenWorkCalled ==
    session.mode = "observed" =>
        /\ \A k \in DOMAIN Calls :
              Calls[k].op = "flush" =>
                  /\ Calls[k].work.PTR = Calls[k].work.ptr
                  /\ Calls[k].work.len = Len(SinceFlush(Calls, k)) + 1
                  /\ Calls[k].bytes = SinceFlush(Calls, k) \o <<Op.Stop>>
                  /\ Calls[k].ptr = Calls[k].work.ptr
        /\ last.op = "flush" => PTR = buf.ptr

\* A flush of the new encoder published the first allocation; CreateElement
\* moved msg to a second one; the next flush published the second.
C24_Witness ==
    /\ Len(Calls) = 3
    /\ Calls[1].op = "flush"
    /\ Calls[1].work = [PTR |-> 9, ptr |-> 9, len |-> 1]
    /\ Calls[2].op = "CreateElement"
    /\ Calls[2].ptr = 17
    /\ Calls[3].op = "flush"
    /\ Calls[3].work = [PTR |-> 17, ptr |-> 17, len |-> 11]
    /\ PTR = 17

(***************************************************************************)
(* C25.  A call other than flush leaves the bytes of the buffer where they *)
(* are and does not call the engine: an operation makes the buffer longer, *)
(* also when it holds more than 1024 bytes already, and should_flush       *)
(* changes neither the buffer nor id_size, whatever it returns.            *)
(***************************************************************************)
C25_OnlyFlushEmpties ==
    [][last'.op # "flush" =>
          /\ Len(msg') >= Len(msg)
          /\ SubSeq(msg', 1, Len(msg)) = msg
          /\ ~last'.worked
          /\ last'.op # "should_flush" => Len(msg') > Len(msg)
          /\ last'.op = "should_flush" => msg' = msg /\ id_size' = id_size]_vars

\* SetText appended its 7 bytes to a buffer of 1025 bytes, which was past
\* what should_flush lets pass before the call and is after it.
C25_Witness ==
    /\ last.op = "SetText"
    /\ last.pre_len = 1025
    /\ Len(msg) = 1032
    /\ should_flush(Begin)

(***************************************************************************)
(* What the claim on the receiver's width speaks of.                       *)
(***************************************************************************)

\* The operands of the width-change records among `records`, in their order.
Sizes(records) == [i \in DOMAIN records |-> records[i].size]

\* The operands of the width-change records the calls wrote, in stream order.
RECURSIVE Announced(_)
Announced(calls) ==
    IF calls = <<>> THEN <<>>
    ELSE Announced(SubSeq(calls, 1, Len(calls) - 1)) \o Sizes(calls[Len(calls)].upgrades)

\* The width of a receiver that began at 1 and has read the session's bytes up
\* to the byte `at` of what call k had in the buffer: the operand of the last
\* width-change record before that byte.
ReceiverWidth(calls, k, at) ==
    LET read == Announced(SubSeq(calls, 1, k - 1))
                  \o Sizes(SelectSeq(calls[k].upgrades, LAMBDA u : u.at < at))
    IN  IF read = <<>> THEN 1 ELSE read[Len(read)]

\* The width of that receiver once it has read what the calls wrote.
WidthAfter(calls) ==
    IF Announced(calls) = <<>> THEN 1 ELSE Announced(calls)[Len(Announced(calls))]

(***************************************************************************)
(* C26.  In an observed session, at every identifier operand of every      *)
(* call the receiver's width is the number of bytes the encoder wrote for  *)
(* the identifier; after every call it is the encoder's id_size, also      *)
(* after a flush; and each width-change record has a larger operand than   *)
(* the one before it in the session.                                       *)
(***************************************************************************)
C26_ReceiverWidthAgrees ==
    session.mode = "observed" =>
        /\ \A k \in DOMAIN Calls :
              /\ \A i \in DOMAIN Calls[k].fields :
                    Len(Calls[k].fields[i].bytes)
                        = ReceiverWidth(Calls, k, Calls[k].fields[i].at)
              /\ Calls[k].size = WidthAfter(SubSeq(Calls, 1, k))
        /\ \A i \in 1..(Len(Announced(Calls)) - 1) :
              Announced(Calls)[i] < Announced(Calls)[i + 1]

(***************************************************************************)
(* What the claim on the readings of a stream speaks of: a reader that     *)
(* takes a stream for a sequence of operations, in every way the layouts   *)
(* of the operations allow.  What the reader takes from the front of       *)
(* `bytes` is [ok, val, rest].                                             *)
(***************************************************************************)

Taken(val, rest) == [ok |-> TRUE, val |-> val, rest |-> rest]
NotTaken == [ok |-> FALSE, val |-> <<>>, rest |-> <<>>]

\* The bytes after the first n.
Drop(bytes, n) == SubSeq(bytes, n + 1, Len(bytes))

\* An identifier of w bytes.
ReadId(bytes, w) ==
    IF Len(bytes) >= w THEN Taken(ZeroExtended(SubSeq(bytes, 1, w)), Drop(bytes, w))
    ELSE NotTaken

\* An optional target: the flag 0, or the flag 1 and an identifier.
ReadTarget(bytes, w) ==
    IF bytes = <<>> \/ bytes[1] \notin {0, 1} THEN NotTaken
    ELSE IF bytes[1] = 0 THEN Taken(None, Tail(bytes))
    ELSE IF ReadId(Tail(bytes), w).ok
         THEN Taken(Some(ReadId(Tail(bytes), w).val), ReadId(Tail(bytes), w).rest)
    ELSE NotTaken

\* A string: its length in 16 bits, then as many bytes.
ReadStr(bytes) ==
    IF Len(bytes) < 2 THEN NotTaken
    ELSE LET n == bytes[1] + 256 * bytes[2]
         IN  IF Len(bytes) >= 2 + n THEN Taken(SubSeq(bytes, 3, 2 + n), Drop(bytes, 2 + n))
             ELSE NotTaken

\* A 32-bit integer (by its digits, the most significant first).
ReadU32(bytes) ==
    IF Len(bytes) < 4 THEN NotTaken ELSE Taken(Reverse(SubSeq(bytes, 1, 4)), Drop(bytes, 4))

\* A flag, 0 or 1.
ReadFlag(bytes) ==
    IF bytes = <<>> \/ bytes[1] \notin {0, 1} THEN NotTaken
    ELSE Taken(bytes[1] = 1, Tail(bytes))

\* n identifiers of w bytes each.
RECURSIVE ReadIds(_, _, _)
ReadIds(bytes, w, n) ==
    IF n = 0 THEN Taken(<<>>, bytes)
    ELSE IF Len(bytes) < n * w THEN NotTaken
    ELSE LET more == ReadIds(Drop(bytes, w), w, n - 1)
         IN  Taken(<<ReadId(bytes, w).val>> \o more.val, more.rest)

\* A 32-bit count and as many identifiers; no stream here holds 65536 of them.
ReadList(bytes, w) ==
    LET c == ReadU32(bytes)
    IN  IF ~c.ok \/ c.val[1] # 0 \/ c.val[2] # 0 THEN NotTaken
        ELSE ReadIds(c.rest, w, 256 * c.val[3] + c.val[4])

\* Identifiers with the flag 1 before each, as many as one likes to take:
\* every way of taking them, as {[val, rest]}.
RECURSIVE ReadFlagged(_, _)
ReadFlagged(bytes, w) ==
    {[val |-> <<>>, rest |-> bytes]}
    \cup (IF bytes # <<>> /\ bytes[1] = 1 /\ ReadId(Tail(bytes), w).ok
          THEN { [val |-> <<ReadId(Tail(bytes), w).val>> \o more.val, rest |-> more.rest] :
                    more \in ReadFlagged(ReadId(Tail(bytes), w).rest, w) }
          ELSE {})

\* An optional namespace: the flag 0, or the flag 1 and a string.
ReadNs(bytes) ==
    IF bytes = <<>> \/ bytes[1] \notin {0, 1} THEN NotTaken
    ELSE IF bytes[1] = 0 THEN Taken(None, Tail(bytes))
    ELSE IF ReadStr(Tail(bytes)).ok
         THEN Taken(Some(ReadStr(Tail(bytes)).val), ReadStr(Tail(bytes)).rest)
    ELSE NotTaken

\* A call read, and the bytes after it.
Read(op, args, rest) == [call |-> [op |-> op, args |-> args], rest |-> rest]

\* The operation of each opcode (CreateElementNs shares CreateElement's).
OpName ==
    <<"AppendChildren", "ReplaceWith", "InsertAfter", "InsertBefore", "Remove",
      "CreateTextNode", "CreateElement", "CreatePlaceholder", "NewEventListener",
      "RemoveEventListener", "SetText", "SetAttribute", "RemoveAttribute",
      "CloneNode", "CloneNodeChildren", "FirstChild", "NextSibling", "ParentNode",
      "StoreWithId", "SetLastNode">>

\* The ways of reading one operation of the opcode b, whose operands are
\* `bytes`, at the width w.
ReadOperands(b, bytes, w) ==
    LET op == OpName[b + 1]
        t  == ReadTarget(bytes, w)
        s1 == ReadStr(t.rest)
    IN  CASE b \in {Op.FirstChild, Op.NextSibling, Op.ParentNode} ->
                {Read(op, NoArgs, bytes)}
          [] b \in {Op.StoreWithId, Op.SetLastNode} ->
                IF t.ok /\ t.val.some
                THEN {Read(op, Args(None, <<t.val.val>>, <<>>, None, FALSE, <<>>), t.rest)}
                ELSE {}
          [] ~t.ok -> {}
          [] b \in {Op.AppendChildren, Op.ReplaceWith, Op.InsertAfter, Op.InsertBefore} ->
                LET ids == ReadList(t.rest, w)
                IN  IF ids.ok
                    THEN {Read(op, Args(t.val, ids.val, <<>>, None, FALSE, <<>>), ids.rest)}
                    ELSE {}
          [] b \in {Op.Remove, Op.CreatePlaceholder} ->
                {Read(op, Args(t.val, <<>>, <<>>, None, FALSE, <<>>), t.rest)}
          [] b = Op.CloneNode ->
                IF ReadId(t.rest, 8).ok
                THEN {Read(op, Args(t.val, <<ReadId(t.rest, 8).val>>, <<>>, None, FALSE, <<>>),
                           ReadId(t.rest, 8).rest)}
                ELSE {}
          [] b = Op.CloneNodeChildren ->
                { Read(op, Args(t.val, ids.val, <<>>, None, FALSE, <<>>), ids.rest) :
                    ids \in ReadFlagged(t.rest, w) }
          [] ~s1.ok -> {}
          [] b \in {Op.CreateTextNode, Op.SetText} ->
                {Read(op, Args(t.val, <<>>, <<s1.val>>, None, FALSE, <<>>), s1.rest)}
          [] b \in {Op.NewEventListener, Op.RemoveEventListener} ->
                LET f == ReadFlag(s1.rest)
                IN  IF f.ok
                    THEN {Read(op, Args(t.val, <<>>, <<s1.val>>, None, f.val, <<>>), f.rest)}
                    ELSE {}
          [] b = Op.CreateElement ->
                LET ns == ReadNs(s1.rest)
                    n  == ReadU32(ns.rest)
                IN  IF ~ns.ok \/ ~n.ok THEN {}
                    ELSE IF ns.val.some
                    THEN {Read("CreateElementNs",
                               Args(t.val, <<>>, <<s1.val, ns.val.val>>, None, FALSE, n.val),
                               n.rest)}
                    ELSE {Read(op, Args(t.val, <<>>, <<s1.val>>, None, FALSE, n.val), n.rest)}
          [] b = Op.SetAttribute ->
                LET ns == ReadNs(s1.rest)
                    v  == ReadStr(ns.rest)
                IN  IF ns.ok /\ v.ok
                    THEN {Read(op, Args(t.val, <<>>, <<s1.val, v.val>>, ns.val, FALSE, <<>>),
                               v.rest)}
                    ELSE {}
          [] b = Op.RemoveAttribute ->
                LET ns == ReadNs(s1.rest)
                IN  IF ns.ok
                    THEN {Read(op, Args(t.val, <<>>, <<s1.val>>, ns.val, FALSE, <<>>), ns.rest)}
                    ELSE {}

\* The sequences of operations a receiver at the width w can take the stream
\* `bytes` for: a width-change record sets the width, the Stop opcode ends
\* the stream.
RECURSIVE Readings(_, _)
Readings(bytes, w) ==
    IF bytes = <<>> THEN {}
    ELSE IF bytes[1] = Op.Stop THEN (IF Len(bytes) = 1 THEN {<<>>} ELSE {})
    ELSE IF bytes[1] = Op.SetIdSize
         THEN (IF Len(bytes) >= 2 /\ bytes[2] \in 1..8 THEN Readings(Drop(bytes, 2), bytes[2])
               ELSE {})
    ELSE IF bytes[1] > Op.Stop THEN {}
    ELSE UNION { { <<r.call>> \o after : after \in Readings(r.rest, w) } :
                    r \in ReadOperands(bytes[1], Tail(bytes), w) }

\* The operations among the calls, each by its name and arguments.
Operations(calls) ==
    LET ops == SelectSeq(calls, LAMBDA c : c.op \notin {"flush", "should_flush"})
    IN  [i \in DOMAIN ops |-> [op |-> ops[i].op, args |-> ops[i].args]]

\* The stream the engine is given when the operations are made on a new
\* encoder, which is then flushed.
StreamOf(operations) == Rerun(Append(operations, [op |-> "flush", args |-> NoArgs])).handed

(***************************************************************************)
(* C27.  In an observed session, the stream of the first flush can come    *)
(* from no other sequence of operations than the one the session made:     *)
(* whatever sequence of operations a receiver takes the stream for, if     *)
(* making those operations on a new encoder and flushing it gives this     *)
(* stream, they are the session's operations, argument by argument.        *)
(***************************************************************************)
C27_OneSequencePerStream ==
    \A k \in DOMAIN Calls :
        (Calls[k].op = "flush" /\ \A j \in 1..(k - 1) : Calls[j].op # "flush") =>
            \A other \in Readings(Calls[k].bytes, 1) :
                StreamOf(other) = Calls[k].bytes
                    => other = Operations(SubSeq(Calls, 1, k - 1))


(***************************************************************************)
(* C28.  Equality of DiffableArguments is symmetric, and two sets over the *)
(* same static array with different numbers of dynamic entries compare     *)
(* unequal in both directions: whatever other.eq(self) can return is what  *)
(* self.eq(other) returned, and a set never equals one that has extra      *)
(* dynamic entries.                                                        *)
(***************************************************************************)
C28_EqSymmetric ==
    f_op = "eq" =>
        /\ \A r \in diffable_eq(f_heap, f_other, f_self) : r = f_out.eq
        /\ (/\ f_self.static_segments = f_other.static_segments
            /\ Len(DynamicOf(f_self)) # Len(DynamicOf(f_other)))
              => f_out.eq = FALSE


C30_WritesOnlyWhenDifferent ==
    m_last.ran =>
        /\ m_last.wrote <=> ne(m_last.computed, m_last.pre_inner)
        /\ ~m_last.wrote => inner = m_last.pre_inner
        /\ inner = m_last.computed

\* The task recomputed after what the computation reads went from 0 to 1,
\* the computation being the half: the result was 0 again and nothing was
\* written.
C30_Witness ==
    /\ m_last.op = "recompute"
    /\ m_last.ran
    /\ ~m_last.wrote
    /\ dep = 1
    /\ callback[0] = callback[1]
    /\ callback[2] = 1
    /\ inner = 0


(***************************************************************************)
(* C31.  A try_read of a Memo none of whose dependencies changed since its *)
(* last computation (the one in Memo::new, one by an earlier read or one   *)
(* by the task) returns the cached value without running the computation   *)
(* again.                                                                  *)
(***************************************************************************)
C31_UnchangedReadIsCached ==
    (m_last.op = "try_read" /\ ~m_last.pre_changed /\ m_last.ret.ok) =>
        /\ ~m_last.ran
        /\ m_last.ret.val = m_last.pre_inner


(***************************************************************************)
(* What the handler's claims compare the results with.                     *)
(***************************************************************************)

\* The elements, from the event's target upward, that carry data-dioxus-id.
Carriers(path) ==
    { n \in DOMAIN path : path[n].kind = "element" /\ path[n].data_dioxus_id.some }

\* The id and the element of the nearest carrier, if there is one and its
\* attribute parses.
NearestWithId(path) ==
    IF Carriers(path) = {} THEN None
    ELSE LET n == CHOOSE c \in Carriers(path) : \A d \in Carriers(path) : c <= d
             id == parse(path[n].data_dioxus_id.val)
         IN  IF id.ok THEN Some([id |-> id.val, element |-> n]) ELSE None

(***************************************************************************)
(* C32.  walk_event_for_id always terminates, and returns the id and the   *)
(* element of the nearest element, from the event's target upward through  *)
(* the parent elements, that carries data-dioxus-id, provided the          *)
(* attribute parses as an id; it returns None when that nearest attribute  *)
(* does not parse, whatever the elements above carry, and when no element  *)
(* on the way carries the attribute; a target that is not an element is    *)
(* passed over and the walk goes on from its parent element.               *)
(***************************************************************************)
C32_WalkFindsNearest ==
    /\ [](pc = "walked" => element = NearestWithId(dom))
    /\ (pc = "walk") ~> (pc = "walked")

\* The walk from a text node went over a parent without the attribute and
\* returned the grandparent, whose attribute "+12" parses.
C32_Witness ==
    /\ pc = "walked"
    /\ Len(dom) = 3
    /\ dom[1].kind = "text"
    /\ ~dom[2].data_dioxus_id.some
    /\ element = Some([id |-> 12, element |-> 3])


\* The words of an attribute's value: the longest runs of characters that
\* are not whitespace.
Words(f) ==
    { SubSeq(f, run[1], run[2]) : run \in
        { ij \in (DOMAIN f) \X (DOMAIN f) :
            /\ ij[1] <= ij[2]
            /\ \A k \in ij[1]..ij[2] : ~IsWhitespace(f[k])
            /\ (ij[1] = 1 \/ IsWhitespace(f[ij[1] - 1]))
            /\ (ij[2] = Len(f) \/ IsWhitespace(f[ij[2] + 1])) } }

\* The node's dioxus-prevent-default lists the event name, with or without
\* "on" before it.
Lists(node, name) ==
    /\ node.dioxus_prevent_default.some
    /\ \E word \in Words(node.dioxus_prevent_default.val) :
          word = name \/ word = On \o name

\* The node's dioxus-prevent-default has the word "on" + name, or the word
\* name where that word does not itself begin with "on".
Requests(node, name) ==
    /\ node.dioxus_prevent_default.some
    /\ \E word \in Words(node.dioxus_prevent_default.val) :
          \/ word = On \o name
          \/ word = name /\ ~(Len(word) >= 2 /\ SubSeq(word, 1, 2) = On)

(***************************************************************************)
(* C33, as claimed.  For an event other than submit the default is         *)
(* prevented exactly when the dioxus-prevent-default attribute of the      *)
(* event's target lists the event name (with an optional "on" before it);  *)
(* for a submit event exactly when the attribute does not list it; and no  *)
(* event is given to the runtime when no element with a valid dioxus id is *)
(* found for the target.                                                   *)
(***************************************************************************)
C33_PreventedByTargetAttribute ==
    pc = "done" =>
        /\ event.name # Submit => (prevented <=> Lists(dom[1], event.name))
        /\ event.name = Submit => (prevented <=> ~Lists(dom[1], event.name))
        /\ ~NearestWithId(dom).some => dispatched = None

(***************************************************************************)
(* C33, as the handler does it.  When an element with a valid dioxus id is *)
(* found for the target, the attribute read is that element's: for an      *)
(* event other than submit the default is prevented exactly when one of    *)
(* its words, a leading "on" removed, is the event name, for a submit      *)
(* event exactly when none is, and the event is given to the runtime for   *)
(* that element.  When none is found nothing is prevented, submit          *)
(* included, and nothing is given to the runtime.                          *)
(***************************************************************************)
C33_PreventedByFoundElement ==
    pc = "done" =>
        LET found == NearestWithId(dom)
        IN  IF found.some
            THEN /\ event.name # Submit
                      => (prevented <=> Requests(dom[found.val.element], event.name))
                 /\ event.name = Submit
                      => (prevented <=> ~Requests(dom[found.val.element], event.name))
                 /\ dispatched = Some([name |-> event.name, bubbles |-> event.bubbles,
                                       element |-> found.val.id,
                                       target |-> found.val.element])
            ELSE ~prevented /\ dispatched = None

\* A click on an element without id that asks for "onclick onsubmit", under
\* a parent with id 7 that asks for nothing: not prevented, and given to the
\* runtime for element 7.
C33_Witness ==
    /\ pc = "done"
    /\ event.name = Click
    /\ Len(dom) = 2
    /\ dom[1] = Node("element", None, Some(On \o Click \o <<32>> \o On \o Submit))
    /\ dom[2] = Node("element", Some(<<55>>), None)
    /\ ~prevented
    /\ dispatched.some
    /\ dispatched.val.element = 7

=============================================================================
